---- MODULE Spec2Model ----
(***************************************************************************)
(* ESTIMAP recreation (r.estimap.recreation): a model of                   *)
(*   - the r.mapcalc expressions the scripts build as strings, modelled as *)
(*     token sequences that are parsed with r.mapcalc's operator           *)
(*     precedence and evaluated cell by cell (specification SpecCalc);     *)
(*   - the control flow of main() over the given options, the lists of     *)
(*     component maps and the raster maps written, up to the callbacks run *)
(*     at exit (specification Spec);                                       *)
(*   - the task queue of j_9_process_Opportunity: main puts the cities,    *)
(*     one worker thread processes them (specifications SpecQueue and      *)
(*     SpecQueueFair).                                                     *)
(***************************************************************************)
EXTENDS Integers, Sequences, FiniteSets, TLC

(***************************************************************************)
(* Cell values.  r.mapcalc computes on integers (CELL) and doubles         *)
(* (DCELL); a double is modelled as the rational n/d, d > 0.  null is the  *)
(* NULL cell, err the failure of the whole r.mapcalc command (syntax       *)
(* error, unknown map).                                                    *)
(***************************************************************************)
V(n, d, int) == [null |-> FALSE, err |-> FALSE, n |-> n, d |-> d, int |-> int]

I(n) == V(n, 1, TRUE)

NULLV == [null |-> TRUE, err |-> FALSE, n |-> 0, d |-> 1, int |-> TRUE]

ERRV == [null |-> TRUE, err |-> TRUE, n |-> 0, d |-> 1, int |-> TRUE]

Abs(a) == IF a < 0 THEN -a ELSE a

RECURSIVE GCD(_, _)
GCD(a, b) == IF b = 0 THEN a ELSE GCD(b, a % b)

\* the rational n/d in lowest terms with a positive denominator
Rat(n, d) ==
    LET g == GCD(Abs(n), Abs(d))
        s == IF d < 0 THEN -1 ELSE 1
    IN  V((s * n) \div g, (s * d) \div g, FALSE)

\* C integer division, truncating towards zero
TruncDiv(a, b) ==
    LET q == Abs(a) \div Abs(b)
    IN  IF (a < 0) = (b < 0) THEN q ELSE -q

RECURSIVE Pow2(_)
Pow2(k) == IF k = 0 THEN 1 ELSE 2 * Pow2(k - 1)

Bad(x, y) == x.err \/ y.err

Nul(x, y) == x.null \/ y.null

\* the arithmetic of two numbers keeps the integer type only for two integers
Arith(x, y, n, d) ==
    IF Bad(x, y) THEN ERRV
    ELSE IF Nul(x, y) THEN NULLV
    ELSE IF x.int /\ y.int THEN I(n) ELSE Rat(n, d)

\* sums and products cancel the common factors first, so that the numbers
\* stay within TLC's integers
VAdd(x, y) ==
    LET g == GCD(x.d, y.d)
    IN  Arith(x, y, x.n * (y.d \div g) + y.n * (x.d \div g), (x.d \div g) * y.d)

VSub(x, y) ==
    LET g == GCD(x.d, y.d)
    IN  Arith(x, y, x.n * (y.d \div g) - y.n * (x.d \div g), (x.d \div g) * y.d)

VMul(x, y) ==
    LET g1 == GCD(Abs(x.n), y.d)
        g2 == GCD(Abs(y.n), x.d)
    IN  Arith(x, y, (x.n \div g1) * (y.n \div g2), (x.d \div g2) * (y.d \div g1))

\* division by zero gives NULL; two integers divide as integers
VDiv(x, y) ==
    IF Bad(x, y) THEN ERRV
    ELSE IF Nul(x, y) \/ y.n = 0 THEN NULLV
    ELSE IF x.int /\ y.int THEN I(TruncDiv(x.n, y.n))
    ELSE VMul(Rat(x.n, x.d), Rat(IF y.n < 0 THEN -y.d ELSE y.d, Abs(y.n)))

\* x.n/x.d <= y.n/y.d
Leq(x, y) ==
    LET g == GCD(x.d, y.d)
    IN  x.n * (y.d \div g) <= y.n * (x.d \div g)

Truth(b) == IF b THEN I(1) ELSE I(0)

Logic(x, y, b) ==
    IF Bad(x, y) THEN ERRV ELSE IF Nul(x, y) THEN NULLV ELSE Truth(b)

VEq(x, y) == Logic(x, y, Leq(x, y) /\ Leq(y, x))

VLt(x, y) == Logic(x, y, ~Leq(y, x))

VLeq(x, y) == Logic(x, y, Leq(x, y))

VGeq(x, y) == Logic(x, y, Leq(y, x))

VAnd(x, y) == Logic(x, y, x.n # 0 /\ y.n # 0)

RECURSIVE BitAnd(_, _)
BitAnd(a, b) ==
    IF a = 0 \/ b = 0 THEN 0
    ELSE (a % 2) * (b % 2) + 2 * BitAnd(a \div 2, b \div 2)

\* the bitwise and is defined on (non-negative) integers only
VBitAnd(x, y) ==
    IF Bad(x, y) \/ ~(x.int /\ y.int) \/ x.n < 0 \/ y.n < 0 THEN ERRV
    ELSE IF Nul(x, y) THEN NULLV
    ELSE I(BitAnd(x.n, y.n))

\* exp(): TLC has no reals, so the exponential is taken to the base 2, on
\* the integer part of its argument; the result is a double
VExp(x) ==
    IF x.err THEN ERRV
    ELSE IF x.null THEN NULLV
    ELSE LET k == TruncDiv(x.n, x.d)
         IN  IF k >= 0 THEN Rat(Pow2(k), 1) ELSE Rat(1, Pow2(-k))

VFloat(x) == IF x.null THEN x ELSE Rat(x.n, x.d)

(***************************************************************************)
(* Expression strings.  A string that Python's format() builds is the      *)
(* sequence of its r.mapcalc tokens; formatting a value into a template    *)
(* splices the value's tokens into the template's, which is what loses the *)
(* grouping of a sum that is formatted in without parentheses.             *)
(***************************************************************************)
Num(v) == <<[k |-> "num", s |-> "", v |-> v]>>

Sym(s) == <<[k |-> "sym", s |-> s, v |-> NULLV]>>

Id(s) == <<[k |-> "id", s |-> s, v |-> NULLV]>>

\* an empty Python string formats to no token at all
Name(s) == IF s = "" THEN <<>> ELSE Id(s)

BinaryOperators == {"=", "&&", "&", "==", "<", "<=", ">=", "+", "-", "*", "/"}

\* r.mapcalc's operator precedence (manual of r.mapcalc, section Operators)
Precedence(o) ==
    CASE o = "=" -> 1
      [] o = "&&" -> 3
      [] o = "&" -> 5
      [] o = "==" -> 6
      [] o \in {"<", "<=", ">="} -> 7
      [] o \in {"+", "-"} -> 9
      [] OTHER -> 10

ErrAst == [op |-> "err"]

\* a value computed once and then used: F applied to the value of v
With(v, F(_)) == CHOOSE r \in {F(x) : x \in {v}} : TRUE

\* r.mapcalc's parser reads the tokens from left to right with a stack of the
\* operands read (out) and a stack of what is still open (ops): binary
\* operators, unary minuses, "(" and the calls with the arguments read so
\* far.  operand: an operand must follow; id: the last token was a name
ParserStart == [out |-> <<>>, ops |-> <<>>, operand |-> TRUE, id |-> FALSE, ok |-> TRUE]

Open(t, s, args) == [t |-> t, s |-> s, args |-> args]

Front(seq) == SubSeq(seq, 1, Len(seq) - 1)

Last(seq) == seq[Len(seq)]

SyntaxError(ps) == [ps EXCEPT !.ok = FALSE]

\* an operand is complete
Operand(ps, ast, id) ==
    [ps EXCEPT !.out = Append(@, ast), !.operand = FALSE, !.id = id]

RECURSIVE Reduce(_, _)
\* the open unary minuses and the open binary operators of precedence >= min
\* take their operands: binary operators are left-associative
Reduce(ps, min) ==
    IF ps.ops = <<>> THEN ps
    ELSE LET top == Last(ps.ops)
             n == Len(ps.out)
         IN  IF top.t = "neg"
             THEN Reduce([ps EXCEPT !.ops = Front(@),
                                    !.out = Append(Front(@), [op |-> "neg", a |-> Last(@)])],
                         min)
             ELSE IF top.t = "bin" /\ Precedence(top.s) >= min
             THEN Reduce([ps EXCEPT !.ops = Front(@),
                                    !.out = Append(SubSeq(@, 1, n - 2),
                                                   [op |-> "bin", o |-> top.s,
                                                    l |-> @[n - 1], r |-> @[n]])],
                         min)
             ELSE ps

\* ")" after an operand closes a parenthesis or the last argument of a call
Close(ps) ==
    IF ps.ops = <<>> THEN SyntaxError(ps)
    ELSE LET top == Last(ps.ops)
         IN  IF top.t = "("
             THEN [ps EXCEPT !.ops = Front(@), !.id = FALSE]
             ELSE [ps EXCEPT !.ops = Front(@), !.id = FALSE,
                             !.out = Append(Front(@),
                                            [op |-> "call", f |-> top.s,
                                             args |-> Append(top.args, Last(@))])]

\* "," after an operand ends an argument of the call that is open
Comma(ps) ==
    IF ps.ops = <<>> \/ Last(ps.ops).t # "call" THEN SyntaxError(ps)
    ELSE [ps EXCEPT !.ops = Append(Front(@), Open("call", Last(@).s,
                                                  Append(Last(@).args, Last(ps.out)))),
                    !.out = Front(@), !.operand = TRUE, !.id = FALSE]

\* one token
Shift(ps, t) ==
    IF ~ps.ok THEN ps
    ELSE IF t.k = "num"
    THEN IF ps.operand THEN Operand(ps, [op |-> "num", v |-> t.v], FALSE)
         ELSE SyntaxError(ps)
    ELSE IF t.k = "id"
    THEN IF ps.operand THEN Operand(ps, [op |-> "var", s |-> t.s], TRUE)
         ELSE SyntaxError(ps)
    ELSE IF ps.operand
    THEN CASE t.s = "(" -> [ps EXCEPT !.ops = Append(@, Open("(", "", <<>>))]
           [] t.s = "-" -> [ps EXCEPT !.ops = Append(@, Open("neg", "", <<>>))]
           [] t.s = ")" /\ ps.ops # <<>> /\ Last(ps.ops) = Open("call", Last(ps.ops).s, <<>>) ->
                \* a call without arguments
                [ps EXCEPT !.ops = Front(@), !.operand = FALSE,
                           !.out = Append(@, [op |-> "call", f |-> Last(ps.ops).s,
                                              args |-> <<>>])]
           [] OTHER -> SyntaxError(ps)
    ELSE CASE t.s = "(" ->
                \* a name followed by "(" is a call
                IF ps.id
                THEN [ps EXCEPT !.ops = Append(@, Open("call", Last(ps.out).s, <<>>)),
                                !.out = Front(@), !.operand = TRUE, !.id = FALSE]
                ELSE SyntaxError(ps)
           [] t.s = ")" -> Close(Reduce(ps, 1))
           [] t.s = "," -> Comma(Reduce(ps, 1))
           [] t.s \in BinaryOperators ->
                [Reduce(ps, Precedence(t.s)) EXCEPT
                    !.ops = Append(@, Open("bin", t.s, <<>>)),
                    !.operand = TRUE, !.id = FALSE]
           [] OTHER -> SyntaxError(ps)

RECURSIVE Scan(_, _, _, _)
\* the tokens i .. j, one half after the other
Scan(ps, toks, i, j) ==
    IF i = j THEN Shift(ps, toks[i])
    ELSE With(Scan(ps, toks, i, (i + j) \div 2),
              LAMBDA half : Scan(half, toks, (i + j) \div 2 + 1, j))

\* the end of the expression: nothing may be left open
Accept(ps) ==
    IF ~ps.ok \/ ps.operand THEN ErrAst
    ELSE LET r == Reduce(ps, 1)
         IN  IF r.ops = <<>> THEN r.out[1] ELSE ErrAst

ParseTokens(toks) ==
    IF toks = <<>> THEN ErrAst ELSE With(Scan(ParserStart, toks, 1, Len(toks)), Accept)

\* a whole expression: every token must be consumed
Parse(toks) == With(toks, ParseTokens)

(***************************************************************************)
(* Evaluation of an expression for one cell.  env gives, for every raster  *)
(* map that exists, the value of the cell in that map; eval() binds        *)
(* further names.  A NULL operand makes the result NULL, and an unknown    *)
(* map, an unknown function or a malformed expression fails the command.   *)
(***************************************************************************)
Bind(env, name, v) == [x \in DOMAIN env \cup {name} |-> IF x = name THEN v ELSE env[x]]

VIf(c, a, b) ==
    IF c.err \/ a.err \/ b.err THEN ERRV
    ELSE IF c.null THEN NULLV
    ELSE IF c.n # 0 THEN a ELSE b

RECURSIVE Eval(_, _)
RECURSIVE EvalSeq(_, _)

\* eval(a, b, ..., z): evaluates its arguments in order, name = expr binds
\* the name for the arguments that follow, and the last value is the result
EvalSeq(args, env) ==
    IF args = <<>> THEN ERRV
    ELSE LET a == Head(args)
             assign == a.op = "bin" /\ a.o = "=" /\ a.l.op = "var"
             v == IF assign THEN Eval(a.r, env) ELSE Eval(a, env)
         IN  IF v.err THEN ERRV
             ELSE IF Len(args) = 1 THEN v
             ELSE EvalSeq(Tail(args), IF assign THEN Bind(env, a.l.s, v) ELSE env)

Eval(ast, env) ==
    CASE ast.op = "num" -> ast.v
      [] ast.op = "var" -> IF ast.s \in DOMAIN env THEN env[ast.s] ELSE ERRV
      [] ast.op = "bin" ->
            LET x == Eval(ast.l, env)
                y == Eval(ast.r, env)
            IN  CASE ast.o = "+" -> VAdd(x, y)
                  [] ast.o = "-" -> VSub(x, y)
                  [] ast.o = "*" -> VMul(x, y)
                  [] ast.o = "/" -> VDiv(x, y)
                  [] ast.o = "==" -> VEq(x, y)
                  [] ast.o = "<" -> VLt(x, y)
                  [] ast.o = "<=" -> VLeq(x, y)
                  [] ast.o = ">=" -> VGeq(x, y)
                  [] ast.o = "&&" -> VAnd(x, y)
                  [] ast.o = "&" -> VBitAnd(x, y)
                  [] OTHER -> ERRV
      [] ast.op = "neg" -> VSub(I(0), Eval(ast.a, env))
      [] ast.op = "call" ->
            LET n == Len(ast.args)
                A(i) == Eval(ast.args[i], env)
            IN  CASE ast.f = "if" /\ n = 2 -> VIf(A(1), A(2), I(0))
                  [] ast.f = "if" /\ n = 3 -> VIf(A(1), A(2), A(3))
                  [] ast.f = "exp" /\ n = 1 -> VExp(A(1))
                  [] ast.f = "float" /\ n = 1 -> VFloat(A(1))
                  [] ast.f = "null" /\ n = 0 -> NULLV
                  [] ast.f = "eval" -> EvalSeq(ast.args, env)
                  [] OTHER -> ERRV
      [] OTHER -> ERRV

\* r.mapcalc on one cell: the value of the expression string
Calc(toks, env) == With(Parse(toks), LAMBDA ast : Eval(ast, env))

RECURSIVE Flatten(_)
Flatten(seqs) == IF seqs = <<>> THEN <<>> ELSE Head(seqs) \o Flatten(Tail(seqs))

RECURSIVE Repeat(_, _)
Repeat(toks, k) == IF k = 0 THEN <<>> ELSE toks \o Repeat(toks, k - 1)

(***************************************************************************)
(* The expression builders of the scripts.                                 *)
(***************************************************************************)
\* one line of the spectrum table: if( {potential} == p && {opportunity} == o, class
SpectrumClause(potential, opportunity, and, p, o, class) ==
    Id("if") \o Sym("(") \o Name(potential) \o Sym("==") \o Num(I(p)) \o Sym(and)
        \o Name(opportunity) \o Sym("==") \o Num(I(o)) \o Sym(",") \o Num(I(class))

\* the nine lines in the order of the source, separated by commas
SpectrumCascade(potential, opportunity, and) ==
    SpectrumClause(potential, opportunity, and, 1, 1, 1) \o Sym(",")
        \o SpectrumClause(potential, opportunity, and, 1, 2, 2) \o Sym(",")
        \o SpectrumClause(potential, opportunity, and, 1, 3, 3) \o Sym(",")
        \o SpectrumClause(potential, opportunity, and, 2, 1, 4) \o Sym(",")
        \o SpectrumClause(potential, opportunity, and, 2, 2, 5) \o Sym(",")
        \o SpectrumClause(potential, opportunity, and, 2, 3, 6) \o Sym(",")
        \o SpectrumClause(potential, opportunity, and, 3, 1, 7) \o Sym(",")
        \o SpectrumClause(potential, opportunity, and, 3, 2, 8) \o Sym(",")
        \o SpectrumClause(potential, opportunity, and, 3, 3, 9)

\* the table read by columns: the two maps in each other's place
recreation_spectrum_expression_transposed(potential, opportunity) ==
    SpectrumCascade(opportunity, potential, "&&") \o Repeat(Sym(")"), 9)

\* r.estimap: nine nested if( ... && ... ) closed by nine parentheses
recreation_spectrum_expression(potential, opportunity) ==
    SpectrumCascade(potential, opportunity, "&&") \o Repeat(Sym(")"), 9)

\* EnRoute_job_9c: exp04, the right-hand side of 'ROS<fua> = (if( ... & ...': one
\* opening parenthesis, the nine if( and ten closing parentheses
exp04(potential, opportunity) ==
    Sym("(") \o SpectrumCascade(potential, opportunity, "&") \o Repeat(Sym(")"), 10)

\* one line of the accessibility rules:
\* if( {anthropic} <op> a && {roads} <op> r, class
AccessibilityClause(anthropic, anthropic_is, a, roads, roads_is, r, class) ==
    Id("if") \o Sym("(") \o Name(anthropic) \o Sym(anthropic_is) \o Num(I(a)) \o Sym("&&")
        \o Name(roads) \o Sym(roads_is) \o Num(I(r)) \o Sym(",") \o Num(I(class))

\* the thirteen lines in the order of the source, separated by commas
AccessibilityCascade(anthropic, roads) ==
    AccessibilityClause(anthropic, "<=", 2, roads, "<=", 2, 1) \o Sym(",")
        \o AccessibilityClause(anthropic, "==", 1, roads, "==", 3, 2) \o Sym(",")
        \o AccessibilityClause(anthropic, "==", 2, roads, "==", 3, 2) \o Sym(",")
        \o AccessibilityClause(anthropic, "==", 3, roads, "<=", 3, 2) \o Sym(",")
        \o AccessibilityClause(anthropic, "<=", 2, roads, "==", 4, 3) \o Sym(",")
        \o AccessibilityClause(anthropic, "==", 4, roads, "==", 2, 3) \o Sym(",")
        \o AccessibilityClause(anthropic, ">=", 4, roads, "==", 1, 3) \o Sym(",")
        \o AccessibilityClause(anthropic, "<=", 2, roads, "==", 5, 4) \o Sym(",")
        \o AccessibilityClause(anthropic, "==", 3, roads, "==", 4, 4) \o Sym(",")
        \o AccessibilityClause(anthropic, ">=", 4, roads, "==", 3, 4) \o Sym(",")
        \o AccessibilityClause(anthropic, "==", 5, roads, "==", 2, 4) \o Sym(",")
        \o AccessibilityClause(anthropic, ">=", 3, roads, "==", 5, 5) \o Sym(",")
        \o AccessibilityClause(anthropic, ">=", 4, roads, "==", 4, 5)

\* the rules read by columns: the two proximity maps in each other's place
anthropic_accessibility_expression_transposed(anthropic_proximity, roads_proximity) ==
    AccessibilityCascade(roads_proximity, anthropic_proximity) \o Repeat(Sym(")"), 13)

\* r.estimap anthropic_accessibility_expression: thirteen nested if( ... ), the
\* last one without an else value, closed by thirteen parentheses
anthropic_accessibility_expression(anthropic_proximity, roads_proximity) ==
    AccessibilityCascade(anthropic_proximity, roads_proximity) \o Repeat(Sym(")"), 13)

\* distance_functions.build_distance_function: numerator and denominator are
\* formatted into " ( {numerator} ) / ( {denominator} )"; score = <<>> is None
build_distance_function(constant, kappa, alpha, variable, score) ==
    LET numerator == constant \o Sym("+") \o kappa
        denominator ==
            kappa \o Sym("+") \o Id("exp") \o Sym("(") \o alpha \o Sym("*")
                \o variable \o Sym(")")
        function ==
            Sym("(") \o numerator \o Sym(")") \o Sym("/")
                \o Sym("(") \o denominator \o Sym(")")
    IN  IF score # <<>> THEN function \o Sym("*") \o score ELSE function

\* r.estimap compute_attractiveness: numerator and denominator are formatted
\* into " ( {numerator} / {denominator} )"; score = <<>> is no 'score' kwarg
attractiveness_distance_function(constant, kappa, alpha, tmp_distance, score) ==
    LET numerator == constant \o Sym("+") \o kappa
        denominator ==
            kappa \o Sym("+") \o Id("exp") \o Sym("(") \o alpha \o Sym("*")
                \o tmp_distance \o Sym(")")
        distance_function ==
            Sym("(") \o numerator \o Sym("/") \o denominator \o Sym(")")
    IN  IF score # <<>> THEN distance_function \o Sym("*") \o score
        ELSE distance_function

\* r.estimap build_mobility_function: the same template as compute_attractiveness,
\* on the population map; the callers always pass the score
build_mobility_function(constant, kappa, alpha, population, score) ==
    LET numerator == constant \o Sym("+") \o kappa
        denominator ==
            kappa \o Sym("+") \o Id("exp") \o Sym("(") \o alpha \o Sym("*")
                \o population \o Sym(")")
        function == Sym("(") \o numerator \o Sym("/") \o denominator \o Sym(")")
    IN  function \o Sym("*") \o score

\* Python's str() of a float: a negative number is a minus sign and a literal
Float(v) == IF v.n < 0 THEN Sym("-") \o Num(Rat(-v.n, v.d)) ELSE Num(Rat(v.n, v.d))

MOBILITY_CONSTANT == 1

MOBILITY_SCORE == 52

\* MOBILITY_COEFFICIENTS: distance category |-> <<kappa, alpha>>
MOBILITY_COEFFICIENTS ==
    [i \in 0 .. 4 |->
        CASE i = 0 -> <<Rat(2350, 100000), Rat(102, 100000)>>
          [] i = 1 -> <<Rat(2651, 100000), Rat(109, 100000)>>
          [] i = 2 -> <<Rat(5120, 100000), Rat(98, 100000)>>
          [] i = 3 -> <<Rat(10700, 100000), Rat(67, 100000)>>
          [] OTHER -> <<Rat(6930, 100000), Rat(57, 100000)>>]

\* r.estimap compute_mobility: one mobility expression per distance category
\* of the coefficients, of which the eval() uses those of 0 .. 3
compute_mobility(distance_map, constant, coefficients, population, score) ==
    LET expressions ==
            [i \in DOMAIN coefficients |->
                build_mobility_function(Num(I(constant)), Float(coefficients[i][1]),
                                        Float(coefficients[i][2]), Name(population),
                                        Num(I(score)))]
        mobility(i) ==
            Id("mobility_" \o ToString(i)) \o Sym("=") \o expressions[i] \o Sym(",")
        distance(i) ==
            Id("distance_" \o ToString(i)) \o Sym("=") \o Name(distance_map)
                \o Sym("==") \o Num(I(i)) \o Sym(",")
        branch(i) ==
            Id("if") \o Sym("(") \o Id("distance_" \o ToString(i)) \o Sym(",")
                \o Id("mobility_" \o ToString(i)) \o Sym(",")
    IN  Id("eval") \o Sym("(")
            \o mobility(0) \o mobility(1) \o mobility(2) \o mobility(3)
            \o distance(0) \o distance(1) \o distance(2) \o distance(3)
            \o branch(0) \o branch(1) \o branch(2) \o branch(3)
            \o Id("null") \o Sym("(") \o Sym(")") \o Repeat(Sym(")"), 5)

\* r.estimap compute_unmet_demand: the mobility expression of the given
\* coefficients, for the cells whose distance category equals 4
compute_unmet_demand(distance_map, constant, coefficients, population, score) ==
    LET unmet_demand_expression ==
            build_mobility_function(Num(I(constant)), Float(coefficients[1]),
                                    Float(coefficients[2]), Name(population),
                                    Num(I(score)))
    IN  Id("eval") \o Sym("(") \o Id("unmet_demand") \o Sym("=")
            \o unmet_demand_expression \o Sym(",")
            \o Id("distance") \o Sym("=") \o Name(distance_map) \o Sym("==")
            \o Num(I(4)) \o Sym(",")
            \o Id("if") \o Sym("(") \o Id("distance") \o Sym(",") \o Id("unmet_demand")
            \o Sym(",") \o Id("null") \o Sym("(") \o Sym(")") \o Sym(")") \o Sym(")")

(***************************************************************************)
(* Which expression a cell's value is computed with: the conditions of     *)
(* if() are evaluated for the cell, the names that eval() binds are        *)
(* replaced by the expressions bound to them, and the arithmetic of the    *)
(* chosen branch is left as it stands.  NullTerm is the NULL cell.         *)
(***************************************************************************)
NullTerm == [op |-> "call", f |-> "null", args |-> <<>>]

RECURSIVE Subst(_, _)
Subst(ast, binds) ==
    CASE ast.op = "var" -> IF ast.s \in DOMAIN binds THEN binds[ast.s] ELSE ast
      [] ast.op = "bin" -> [ast EXCEPT !.l = Subst(ast.l, binds), !.r = Subst(ast.r, binds)]
      [] ast.op = "neg" -> [ast EXCEPT !.a = Subst(ast.a, binds)]
      [] ast.op = "call" ->
            [ast EXCEPT !.args = [i \in 1 .. Len(ast.args) |-> Subst(ast.args[i], binds)]]
      [] OTHER -> ast

RECURSIVE Term(_, _, _)
RECURSIVE TermSeq(_, _, _)

TermSeq(args, env, binds) ==
    IF args = <<>> THEN ErrAst
    ELSE LET a == Head(args)
             assign == a.op = "bin" /\ a.o = "=" /\ a.l.op = "var"
         IN  IF Len(args) = 1 THEN Term(a, env, binds)
             ELSE TermSeq(Tail(args), env,
                          IF assign THEN Bind(binds, a.l.s, Subst(a.r, binds)) ELSE binds)

Term(ast, env, binds) ==
    IF ast.op = "call" /\ ast.f = "eval" THEN TermSeq(ast.args, env, binds)
    ELSE IF ast.op = "call" /\ ast.f = "if" /\ Len(ast.args) = 3
    THEN LET c == Eval(Subst(ast.args[1], binds), env)
         IN  IF c.err THEN ErrAst
             ELSE IF c.null THEN NullTerm
             ELSE IF c.n # 0 THEN Term(ast.args[2], env, binds)
             ELSE Term(ast.args[3], env, binds)
    ELSE Subst(ast, binds)

NoBinds == [x \in {} |-> ErrAst]

(***************************************************************************)
(* r.recode rules: low:high:class, "*" as high is the maximum of the map.  *)
(* A value gets the class of the last rule whose interval contains it, and *)
(* NULL when no rule does.                                                 *)
(***************************************************************************)
Rule(lo, hi, class) == [lo |-> lo, hi |-> hi, star |-> FALSE, class |-> class]

RuleUp(lo, class) == [lo |-> lo, hi |-> lo, star |-> TRUE, class |-> class]

Matches(rule, v) == Leq(rule.lo, v) /\ (rule.star \/ Leq(v, rule.hi))

r_recode(rules, v) ==
    IF v.null THEN NULLV
    ELSE LET hits == {i \in 1 .. Len(rules) : Matches(rules[i], v)}
         IN  IF hits = {} THEN NULLV
             ELSE I(rules[CHOOSE i \in hits : \A j \in hits : j <= i].class)

\* the answer of the option spectrum_distances
spectrum_distances ==
    <<Rule(I(0), I(1000), 1), Rule(I(1000), I(2000), 2), Rule(I(2000), I(3000), 3),
      Rule(I(3000), I(4000), 4), RuleUp(I(4000), 5)>>

\* r.estimap recreation_potential_categories: 0.0:0.2:1, 0.2:0.4:2, 0.4:*:3
recreation_potential_categories ==
    <<Rule(Rat(0, 10), Rat(2, 10), 1), Rule(Rat(2, 10), Rat(4, 10), 2),
      RuleUp(Rat(4, 10), 3)>>

(***************************************************************************)
(* Rules whose bounds are written with up to eight decimals: the decimal   *)
(* number whole.frac, frac counting units of 0.00000001.  The recoding is  *)
(* the one of r_recode.                                                    *)
(***************************************************************************)
Decimal(whole, frac) == [whole |-> whole, frac |-> frac]

DecimalLeq(x, y) == x.whole < y.whole \/ (x.whole = y.whole /\ x.frac <= y.frac)

DecimalMatches(rule, v) ==
    DecimalLeq(rule.lo, v) /\ (rule.star \/ DecimalLeq(v, rule.hi))

r_recode_decimal(rules, v) ==
    LET hits == {i \in 1 .. Len(rules) : DecimalMatches(rules[i], v)}
    IN  IF hits = {} THEN NULLV
        ELSE I(rules[CHOOSE i \in hits : \A j \in hits : j <= i].class)

\* the answer of the option artificial_distances:
\* 0:500:1,500.000001:1000:2,1000.000001:5000:3,5000.000001:10000:4,10000.00001:*:5
artificial_distance_categories ==
    <<Rule(Decimal(0, 0), Decimal(500, 0), 1),
      Rule(Decimal(500, 100), Decimal(1000, 0), 2),
      Rule(Decimal(1000, 100), Decimal(5000, 0), 3),
      Rule(Decimal(5000, 100), Decimal(10000, 0), 4),
      RuleUp(Decimal(10000, 1000), 5)>>

(***************************************************************************)
(* r.recode rules low:high:new_low:new_high: the values of low .. high are *)
(* mapped linearly onto new_low .. new_high, as doubles.                   *)
(***************************************************************************)
ScoreRule(lo, hi, new_lo, new_hi) ==
    [lo |-> I(lo), hi |-> I(hi), star |-> FALSE, new_lo |-> new_lo, new_hi |-> new_hi]

Interpolate(rule, v) ==
    IF Leq(rule.hi, rule.lo) THEN rule.new_lo
    ELSE VAdd(rule.new_lo,
              VDiv(VMul(VFloat(VSub(v, rule.lo)), VSub(rule.new_hi, rule.new_lo)),
                   VFloat(VSub(rule.hi, rule.lo))))

r_recode_scores(rules, v) ==
    IF v.null THEN NULLV
    ELSE LET hits == {i \in 1 .. Len(rules) : Matches(rules[i], v)}
         IN  IF hits = {} THEN NULLV
             ELSE Interpolate(rules[CHOOSE i \in hits : \A j \in hits : j <= i], v)

\* the rules with the score of class 10 moved to class 11
SUITABILITY_SCORES_shifted ==
    <<ScoreRule(1, 1, Rat(0, 10), Rat(0, 10)), ScoreRule(2, 2, Rat(1, 10), Rat(1, 10)),
      ScoreRule(3, 10, Rat(0, 10), Rat(0, 10)), ScoreRule(11, 11, Rat(10, 10), Rat(10, 10)),
      ScoreRule(11, 11, Rat(1, 10), Rat(1, 10)), ScoreRule(12, 13, Rat(3, 10), Rat(3, 10)),
      ScoreRule(14, 14, Rat(4, 10), Rat(4, 10)), ScoreRule(15, 17, Rat(5, 10), Rat(5, 10)),
      ScoreRule(18, 18, Rat(6, 10), Rat(6, 10)), ScoreRule(19, 20, Rat(3, 10), Rat(3, 10)),
      ScoreRule(21, 22, Rat(6, 10), Rat(6, 10)), ScoreRule(23, 23, Rat(10, 10), Rat(10, 10)),
      ScoreRule(24, 24, Rat(8, 10), Rat(8, 10)), ScoreRule(25, 25, Rat(10, 10), Rat(10, 10)),
      ScoreRule(26, 29, Rat(8, 10), Rat(8, 10)), ScoreRule(30, 30, Rat(10, 10), Rat(10, 10)),
      ScoreRule(31, 31, Rat(8, 10), Rat(8, 10)), ScoreRule(32, 32, Rat(7, 10), Rat(7, 10)),
      ScoreRule(33, 33, Rat(0, 10), Rat(0, 10)), ScoreRule(34, 34, Rat(8, 10), Rat(8, 10)),
      ScoreRule(35, 35, Rat(10, 10), Rat(10, 10)), ScoreRule(36, 36, Rat(8, 10), Rat(8, 10)),
      ScoreRule(37, 37, Rat(10, 10), Rat(10, 10)), ScoreRule(38, 38, Rat(8, 10), Rat(8, 10)),
      ScoreRule(39, 39, Rat(10, 10), Rat(10, 10)), ScoreRule(40, 42, Rat(10, 10), Rat(10, 10)),
      ScoreRule(43, 43, Rat(8, 10), Rat(8, 10)), ScoreRule(44, 44, Rat(10, 10), Rat(10, 10)),
      ScoreRule(45, 45, Rat(3, 10), Rat(3, 10))>>

\* r.estimap SUITABILITY_SCORES
SUITABILITY_SCORES ==
    <<ScoreRule(1, 1, Rat(0, 10), Rat(0, 10)), ScoreRule(2, 2, Rat(1, 10), Rat(1, 10)),
      ScoreRule(3, 9, Rat(0, 10), Rat(0, 10)), ScoreRule(10, 10, Rat(10, 10), Rat(10, 10)),
      ScoreRule(11, 11, Rat(1, 10), Rat(1, 10)), ScoreRule(12, 13, Rat(3, 10), Rat(3, 10)),
      ScoreRule(14, 14, Rat(4, 10), Rat(4, 10)), ScoreRule(15, 17, Rat(5, 10), Rat(5, 10)),
      ScoreRule(18, 18, Rat(6, 10), Rat(6, 10)), ScoreRule(19, 20, Rat(3, 10), Rat(3, 10)),
      ScoreRule(21, 22, Rat(6, 10), Rat(6, 10)), ScoreRule(23, 23, Rat(10, 10), Rat(10, 10)),
      ScoreRule(24, 24, Rat(8, 10), Rat(8, 10)), ScoreRule(25, 25, Rat(10, 10), Rat(10, 10)),
      ScoreRule(26, 29, Rat(8, 10), Rat(8, 10)), ScoreRule(30, 30, Rat(10, 10), Rat(10, 10)),
      ScoreRule(31, 31, Rat(8, 10), Rat(8, 10)), ScoreRule(32, 32, Rat(7, 10), Rat(7, 10)),
      ScoreRule(33, 33, Rat(0, 10), Rat(0, 10)), ScoreRule(34, 34, Rat(8, 10), Rat(8, 10)),
      ScoreRule(35, 35, Rat(10, 10), Rat(10, 10)), ScoreRule(36, 36, Rat(8, 10), Rat(8, 10)),
      ScoreRule(37, 37, Rat(10, 10), Rat(10, 10)), ScoreRule(38, 38, Rat(8, 10), Rat(8, 10)),
      ScoreRule(39, 39, Rat(10, 10), Rat(10, 10)), ScoreRule(40, 42, Rat(10, 10), Rat(10, 10)),
      ScoreRule(43, 43, Rat(8, 10), Rat(8, 10)), ScoreRule(44, 44, Rat(10, 10), Rat(10, 10)),
      ScoreRule(45, 45, Rat(3, 10), Rat(3, 10))>>

\* test.r.estimap: the cells of the input map CORINE_LAND_COVER_CLASSES
CORINE_LAND_COVER_CLASSES == [i \in 1 .. 45 |-> I(i)]

\* test.r.estimap: the cells of the expected map, in tenths
CORINE_LAND_COVER_CLASSES_SUITABILITY_SCORES ==
    <<0, 1, 0, 0, 0, 0, 0, 0, 0, 10, 1, 3, 3, 4, 5,
      5, 5, 6, 3, 3, 6, 6, 10, 8, 10, 8, 8, 8, 8, 10,
      8, 7, 0, 8, 10, 8, 10, 8, 10, 10, 10, 10, 8, 10, 3>>

(***************************************************************************)
(* The raster database of the functions that work on whole maps: db maps   *)
(* the name of every existing raster map to its cells, ok is FALSE once a  *)
(* command has failed (grass.fatal or an exception ends the script), tmp   *)
(* counts the temporary file names handed out by grass.tempfile().         *)
(***************************************************************************)
Cells == 3

CellIds == 1 .. Cells

Failed(st) == [st EXCEPT !.ok = FALSE]

\* grassy_utilities.tmp_map_name: "tmp." + a new temporary file name + "." + name
tmp_map_name(st, name) ==
    "tmp." \o ToString(st.tmp) \o (IF name = "" THEN "" ELSE "." \o name)

NextTmp(st) == [st EXCEPT !.tmp = @ + 1]

\* grass.mapcalc("{result} = {expression}", overwrite=True)
mapcalc(st, result, expression) ==
    LET ast == Parse(expression)
        cells == [c \in CellIds |-> Eval(ast, [m \in DOMAIN st.db |-> st.db[m][c]])]
    IN  IF ~st.ok \/ \E c \in CellIds : cells[c].err THEN Failed(st)
        ELSE [st EXCEPT !.db = Bind(st.db, result, cells)]

\* grass.raster_info(raster)['min'] and ['max'], Python floats, None for a map
\* without a non-NULL cell; formatted into an expression string
NonNull(raster) == {c \in CellIds : ~raster[c].null}

raster_info_min(raster) ==
    IF NonNull(raster) = {} THEN Id("None")
    ELSE Float(raster[CHOOSE c \in NonNull(raster) :
                        \A e \in NonNull(raster) : Leq(raster[c], raster[e])])

raster_info_max(raster) ==
    IF NonNull(raster) = {} THEN Id("None")
    ELSE Float(raster[CHOOSE c \in NonNull(raster) :
                        \A e \in NonNull(raster) : Leq(raster[e], raster[c])])

\* r.estimap normalize_map
normalize_map(st, raster, output_name) ==
    IF ~st.ok \/ raster \notin DOMAIN st.db THEN Failed(st)
    ELSE LET minimum == raster_info_min(st.db[raster])
             maximum == raster_info_max(st.db[raster])
             normalisation ==
                 Id("float") \o Sym("(") \o Sym("(") \o Name(raster) \o Sym("-")
                     \o minimum \o Sym(")") \o Sym("/") \o Sym("(") \o maximum
                     \o Sym("-") \o minimum \o Sym(")") \o Sym(")")
         IN  mapcalc(st, output_name, normalisation)

\* r.estimap.py normalize: the template is filled with valuem = min and
\* valueM = max, Python's built-in functions (minimum and maximum are not used),
\* whose str() is '<built-in function min>'; the input map is removed after
PyBuiltin(f) == Sym("<") \o Id("built-in") \o Id("function") \o Id(f) \o Sym(">")

Remove(st, raster) ==
    IF st.ok THEN [st EXCEPT !.db = [m \in DOMAIN st.db \ {raster} |-> st.db[m]]] ELSE st

normalize_estimap(st, inras, outras) ==
    LET valuem == PyBuiltin("min")
        valueM == PyBuiltin("max")
        expression ==
            Id("float") \o Sym("(") \o Sym("(") \o Name(inras) \o Sym("-") \o valuem
                \o Sym(")") \o Sym("/") \o Sym("(") \o valueM \o Sym("-") \o valuem
                \o Sym(")") \o Sym(")")
    IN  Remove(mapcalc(st, outras, expression), inras)

\* first_implementation/functions.py normalize: min and max are local variables
normalize_first(st, inras, outras) ==
    IF ~st.ok \/ inras \notin DOMAIN st.db THEN Failed(st)
    ELSE LET min == raster_info_min(st.db[inras])
             max == raster_info_max(st.db[inras])
             expression ==
                 Id("float") \o Sym("(") \o Sym("(") \o Name(inras) \o Sym("-") \o min
                     \o Sym(")") \o Sym("/") \o Sym("(") \o max \o Sym("-") \o min
                     \o Sym(")") \o Sym(")")
         IN  Remove(mapcalc(st, outras, expression), inras)

THRESHHOLD_ZERO == I(0)

THRESHHOLD_0001 == Rat(1, 10000)

\* a threshhold in an expression: Python's str() of the int 0 or of a float
Threshhold(t) == IF t.int THEN Num(t) ELSE Float(t)

\* the small values kept and the others set to 0
zerofy_small_values_inverted(st, raster, threshhold, output_name) ==
    LET rounding ==
            Id("if") \o Sym("(") \o Name(raster) \o Sym("<") \o Threshhold(threshhold)
                \o Sym(",") \o Name(raster) \o Sym(",") \o Num(I(0)) \o Sym(")")
    IN  mapcalc(st, output_name, rounding)

\* r.estimap zerofy_small_values
zerofy_small_values(st, raster, threshhold, output_name) ==
    LET rounding ==
            Id("if") \o Sym("(") \o Name(raster) \o Sym("<") \o Threshhold(threshhold)
                \o Sym(",") \o Num(I(0)) \o Sym(",") \o Name(raster) \o Sym(")")
    IN  mapcalc(st, output_name, rounding)

RECURSIVE Join(_, _)
Join(names, sep) ==
    IF names = <<>> THEN ""
    ELSE IF Len(names) = 1 THEN names[1]
    ELSE names[1] \o sep \o Join(Tail(names), sep)

RECURSIVE spacy_plus_join(_)
spacy_plus_join(components) ==
    IF Len(components) = 1 THEN Name(components[1])
    ELSE Name(components[1]) \o Sym("+") \o spacy_plus_join(Tail(components))

\* r.estimap zerofy_and_normalise_component; with no component at all neither
\* branch names tmp_intermediate and the function ends in an UnboundLocalError
zerofy_and_normalise_component(st, components, threshhold, output_name) ==
    IF ~st.ok \/ components = <<>> THEN Failed(st)
    ELSE LET many == Len(components) > 1
             components_string == Join(components, "_")
             tmp_intermediate ==
                 IF many THEN tmp_map_name(st, components_string) ELSE components[1]
             st1 == IF many THEN NextTmp(st) ELSE st
             tmp_output ==
                 IF many THEN tmp_map_name(st1, components_string)
                 ELSE tmp_map_name(st1, tmp_intermediate)
             st2 == NextTmp(st1)
             st3 == IF many THEN mapcalc(st2, tmp_intermediate, spacy_plus_join(components))
                    ELSE st2
             zerofy == ~Leq(threshhold, THRESHHOLD_ZERO)
             st4 == IF zerofy
                    THEN zerofy_small_values(st3, tmp_intermediate, threshhold, tmp_output)
                    ELSE st3
         IN  normalize_map(st4, IF zerofy THEN tmp_output ELSE tmp_intermediate,
                           output_name)

(***************************************************************************)
(* State.  fn, arg and res are the function of the scripts that is applied, *)
(* its inputs and its result (specification SpecCalc): from the idle state *)
(* "none" one function is applied to one choice of inputs.                 *)
(***************************************************************************)
VARIABLES fn, arg, res

calcvars == <<fn, arg, res>>

(***************************************************************************)
(* State of one invocation of r.estimap.recreation (specification Spec):   *)
(* the options given on the command line, the position in main(), the      *)
(* lists of component maps, the names main() binds, the raster maps of the *)
(* mapset, the maps whose NULL cells were set to 0, the CSV files written, *)
(* the trace of the steps taken, the flags given, main's name metric and   *)
(* the maps registered for removal at exit.                                *)
(***************************************************************************)
VARIABLES given, pc, error, land_component, water_component, natural_component,
          recreation_potential_component, infrastructure_component,
          recreation_spectrum, rasters, nulled, csv, trace, flags, metric, at_exit,
          MASK

components ==
    <<land_component, water_component, natural_component,
      recreation_potential_component, infrastructure_component>>

mainvars ==
    <<given, pc, error, components, recreation_spectrum, rasters, nulled, csv, trace,
      flags, metric, at_exit, MASK>>

(***************************************************************************)
(* State of j_9_process_Opportunity (specification SpecQueue): the list of *)
(* cities, the position of main and the number of cities it has put, the   *)
(* Queue (its items and its count of unfinished tasks), the worker thread  *)
(* and the city of its task, how often the task of a city has returned,    *)
(* and what the task of a city has written.                                *)
(***************************************************************************)
VARIABLES lista_citta, main_pc, cities_put, queue, unfinished_tasks, worker, city,
          processed, written

queuevars ==
    <<lista_citta, main_pc, cities_put, queue, unfinished_tasks, worker, city,
      processed, written>>

(***************************************************************************)
(* The computational region over one invocation of r.estimap or of         *)
(* r.estimap.recreation (specification SpecRegion): main() as its blocks,  *)
(* with the calls of grass.use_temp_region, g.region and                   *)
(* grass.del_temp_region.  WIND is the region of the user's mapset,        *)
(* WIND_OVERRIDE says whether the process computes in the temporary region  *)
(* temp_region instead.                                                    *)
(***************************************************************************)
VARIABLES script, landuse_extent, requested, at, WIND, temp_region, WIND_OVERRIDE,
          use_calls, del_calls

regionvars ==
    <<script, landuse_extent, requested, at, WIND, temp_region, WIND_OVERRIDE,
      use_calls, del_calls>>

(***************************************************************************)
(* The form that the QGIS plugin generates for a module: widgets holds the *)
(* state of the widget of every parameter, codeDict the parameter          *)
(* dictionary, flagList the checked flags, code_string the command shown   *)
(* to the user, command the arguments of the last run_command, and edited  *)
(* the parameters whose widget the user has changed.                       *)
(***************************************************************************)
VARIABLES widgets, codeDict, flagList, code_string, command, edited

formvars == <<widgets, codeDict, flagList, code_string, command, edited>>

vars == <<calcvars, mainvars, queuevars, regionvars, formvars>>

(***************************************************************************)
(* The command line.  An option's answer is the list of its comma          *)
(* separated values, <<>> when the option is not given.  The options of    *)
(* the header that are left out (urban, recreation, coast_geomorphology,   *)
(* protected_scores, devaluation, mask, base_vector, units, timestamp) and *)
(* the flags other than -s are not given in any run.                       *)
(***************************************************************************)
\* at most MaxOptions options are given, a list of maps has at most MaxMaps maps
MaxOptions == 5

MaxMaps == 2

\* the options in the order of the header
OptionOrder ==
    <<"land", "natural", "water", "infrastructure", "landuse", "suitability_scores",
      "landcover", "land_classes", "lakes", "lakes_coefficients", "coastline",
      "coastline_coefficients",
      "bathing_water", "bathing_coefficients", "protected", "artificial",
      "artificial_distances", "roads", "roads_distances", "mask", "potential",
      "opportunity",
      "spectrum", "spectrum_distances", "base", "aggregation", "population",
      "demand", "unmet", "flow", "supply", "use", "metric">>

OptionNames == {OptionOrder[i] : i \in DOMAIN OptionOrder}

OptionIndex(o) == CHOOSE i \in DOMAIN OptionOrder : OptionOrder[i] = o

\* land.split(","), water.split(","), natural.split(",")
MapLists == {"land", "natural", "water"}

\* rules for r.recode, given as the name of a file or as a string of rules
RuleOptions == {"suitability_scores", "land_classes", "spectrum_distances"}

RulesFile == "rules.txt"

RulesString == "0:1000:1,1000:2000:2,2000:3000:3,3000:4000:4,4000:*:5"

\* ":" in <string>
HasColon(string) == string = RulesString

MapNames(o, n) == [i \in 1 .. n |-> o \o ToString(i)]

\* coefficients of a distance function: metric, constant, kappa, alpha and,
\* but for bathing_coefficients, score
CoefficientOptions == {"lakes_coefficients", "coastline_coefficients", "bathing_coefficients"}

Answers(o) ==
    IF o \in MapLists THEN {MapNames(o, n) : n \in 1 .. MaxMaps}
    ELSE IF o \in RuleOptions THEN {<<RulesFile>>, <<RulesString>>}
    ELSE IF o = "bathing_coefficients" THEN {<<"squared", "2", "6", "0.02">>}
    ELSE IF o \in CoefficientOptions THEN {<<"squared", "2", "6", "0.02", "3">>}
    ELSE IF o = "metric" THEN {<<"manhattan">>}
    ELSE {<<o>>}

\* the answer: of the header, of an option that has one
DefaultAnswer(o) ==
    CASE o = "spectrum_distances" -> <<RulesString>>
      [] o \in {"lakes_coefficients", "coastline_coefficients"}
            -> <<"euclidean", "1", "30", "0.008", "1">>
      [] o = "bathing_coefficients" -> <<"euclidean", "1", "5", "0.01101">>
      [] o = "metric" -> <<"euclidean">>
      [] OTHER -> <<>>

\* the comma separated values of options[key]
Values(o) == IF given[o] # <<>> THEN given[o] ELSE DefaultAnswer(o)

NoOptions == [o \in OptionNames |-> <<>>]

\* options[key]: the answer as a string, the answer: of the header if not given
Present(o) == o \in OptionNames /\ given[o] # <<>>

Answer(o) == IF Values(o) = <<>> THEN "" ELSE Values(o)[1]

any(os) == \E o \in os : Present(o)

\* the #%rules sections of the header, in their order
ParserRule(kind, opts) == [kind |-> kind, opts |-> opts]

OptionRules ==
    <<ParserRule("exclusive", <<"land">>),
      ParserRule("excludes", <<"land", "suitability_scores">>),
      ParserRule("requires", <<"coastline", "coastline_coefficients">>),
      ParserRule("requires", <<"coast_geomorphology", "coastline">>),
      ParserRule("requires", <<"bathing_water", "bathing_coefficients">>),
      ParserRule("requires", <<"artificial", "artificial_distances">>),
      ParserRule("requires", <<"roads", "roads_distances">>),
      ParserRule("collective", <<"artificial", "roads">>),
      ParserRule("requires", <<"potential", "land", "natural", "water", "landuse",
                               "protected", "lakes", "coastline">>),
      ParserRule("requires", <<"opportunity", "infrastructure", "roads">>),
      ParserRule("requires", <<"spectrum", "infrastructure", "roads">>),
      ParserRule("required", <<"land", "landcover", "landuse">>),
      ParserRule("requires_all", <<"demand", "population", "base">>),
      ParserRule("requires", <<"demand", "infrastructure", "artificial", "roads">>),
      ParserRule("requires", <<"unmet", "demand">>),
      ParserRule("requires_all", <<"flow", "population", "base">>),
      ParserRule("requires", <<"flow", "infrastructure", "artificial", "roads">>),
      ParserRule("requires", <<"opportunity", "spectrum", "demand", "flow", "supply">>),
      ParserRule("required", <<"potential", "spectrum", "demand", "flow", "supply", "use">>),
      ParserRule("requires", <<"supply", "land", "natural", "water", "landuse",
                               "protected", "lakes", "coastline">>),
      ParserRule("requires_all", <<"supply", "population">>),
      ParserRule("requires_all", <<"supply", "landcover", "land_classes">>),
      ParserRule("requires", <<"supply", "base", "base_vector", "aggregation">>),
      ParserRule("requires", <<"supply", "landcover", "landuse">>),
      ParserRule("requires_all", <<"use", "population">>),
      ParserRule("requires", <<"use", "base", "base_vector", "aggregation">>),
      ParserRule("requires", <<"use", "landcover", "landuse">>)>>

\* G_parser's check of one rule; an option is present when it is given on the
\* command line, not when it only has a default answer
Satisfied(rule) ==
    LET opts == rule.opts
        others == {opts[i] : i \in 2 .. Len(opts)}
        all == {opts[i] : i \in 1 .. Len(opts)}
        present == {o \in all : Present(o)}
    IN  CASE rule.kind = "requires" -> Present(opts[1]) => any(others)
          [] rule.kind = "requires_all" -> Present(opts[1]) => others \subseteq present
          [] rule.kind = "excludes" -> Present(opts[1]) => ~any(others)
          [] rule.kind = "required" -> present # {}
          [] rule.kind = "exclusive" -> Cardinality(present) <= 1
          [] rule.kind = "collective" -> present = {} \/ present = all

Accepted == \A i \in DOMAIN OptionRules : Satisfied(OptionRules[i])

\* j_9_process_Opportunity is not running
QueueIdle ==
    /\ lista_citta = <<>>
    /\ main_pc = "none"
    /\ cities_put = 0
    /\ queue = <<>>
    /\ unfinished_tasks = 0
    /\ worker = "none"
    /\ city = ""
    /\ processed = <<>>
    /\ written = <<>>

FormIdle ==
    /\ widgets = <<>>
    /\ codeDict = <<>>
    /\ flagList = <<>>
    /\ code_string = <<>>
    /\ command = <<>>
    /\ edited = {}

RegionIdle ==
    /\ script = ""
    /\ landuse_extent = FALSE
    /\ requested = {}
    /\ at = "none"
    /\ WIND = "user"
    /\ temp_region = ""
    /\ WIND_OVERRIDE = FALSE
    /\ use_calls = 0
    /\ del_calls = 0

\* before the command line is read
MainIdle ==
    /\ given = NoOptions
    /\ pc = "options"
    /\ error = ""
    /\ land_component = <<>>
    /\ water_component = <<>>
    /\ natural_component = <<>>
    /\ recreation_potential_component = <<>>
    /\ infrastructure_component = <<>>
    /\ recreation_spectrum = ""
    /\ rasters = {}
    /\ nulled = {}
    /\ csv = {}
    /\ trace = <<>>
    /\ flags = {}
    /\ metric = ""
    /\ at_exit = {}
    /\ MASK = ""

\* bounds of the inputs
MaxValue == 1

MaxLayers == 2

MaxDistance == 3

MaxKappa == 3

MaxPopulation == 3

\* a cell holds NULL, a positive value below THRESHHOLD_0001, -1 or one of
\* 1 .. MaxValue
CellValues == {NULLV, Rat(1, 20000), Rat(-1, 1)} \cup {Rat(k, 1) : k \in 1 .. MaxValue}

Rasters == [CellIds -> CellValues]

\* the classes that RECREATION_POTENTIAL_CATEGORIES recodes to; 0 is a NULL cell
Classes == 0 .. 3

ClassValue(c) == IF c = 0 THEN NULLV ELSE I(c)

\* the classes that the proximity maps are recoded to; 0 is a NULL cell
ProximityClasses == 0 .. 5

\* distances to the highest spectrum in metres: every 500 m up to 5 km
Metres == {500 * k : k \in 0 .. 10}

CalcIdle == fn = "none" /\ arg = <<>> /\ res = <<>>

\* compute_recreation_spectrum / work_on_ros on one cell
Spectrum ==
    /\ fn = "none"
    /\ UNCHANGED <<mainvars, queuevars, regionvars, formvars>>
    /\ \E variant \in {"recreation_spectrum_expression", "exp04"},
          p \in Classes, o \in Classes :
        LET expression ==
                IF variant = "exp04" THEN exp04("RPnr", "OSr")
                ELSE recreation_spectrum_expression("RPnr", "OSr")
            env == [m \in {"RPnr", "OSr"} |->
                        IF m = "RPnr" THEN ClassValue(p) ELSE ClassValue(o)]
        IN  /\ fn' = "spectrum"
            /\ arg' = [variant |-> variant, p |-> p, o |-> o]
            /\ res' = Calc(expression, env)

\* the attractiveness of one cell of the distance map; score 0 is no score
Attractiveness ==
    /\ fn = "none"
    /\ UNCHANGED <<mainvars, queuevars, regionvars, formvars>>
    /\ \E variant \in {"build_distance_function", "compute_attractiveness"},
       kappa \in 1 .. MaxKappa, alpha \in 0 .. 1, distance \in 0 .. MaxDistance,
       score \in 0 .. 2 :
        LET sc == IF score = 0 THEN <<>> ELSE Num(I(score))
            expression ==
                IF variant = "build_distance_function"
                THEN build_distance_function(Num(I(1)), Num(I(kappa)), Num(I(alpha)),
                                             Id("tmp_distance"), sc)
                ELSE attractiveness_distance_function(Num(I(1)), Num(I(kappa)),
                                                      Num(I(alpha)), Id("tmp_distance"), sc)
            env == [m \in {"tmp_distance"} |-> Rat(distance, 1)]
        IN  /\ fn' = "attractiveness"
            /\ arg' = [variant |-> variant, constant |-> 1, kappa |-> kappa,
                       alpha |-> alpha, distance |-> distance, score |-> score]
            /\ res' = Calc(expression, env)

\* the flow of one cell: its distance is recoded with spectrum_distances and
\* the mobility expression chooses what the cell is computed with
Mobility ==
    /\ fn = "none"
    /\ UNCHANGED <<mainvars, queuevars, regionvars, formvars>>
    /\ \E metres \in Metres :
        LET class == r_recode(spectrum_distances, I(metres))
            env == [m \in {"distance", "demand"} |->
                        IF m = "distance" THEN class ELSE Rat(7, 1)]
            expression ==
                compute_mobility("distance", MOBILITY_CONSTANT, MOBILITY_COEFFICIENTS,
                                 "demand", MOBILITY_SCORE)
        IN  /\ fn' = "mobility"
            /\ arg' = [metres |-> metres, class |-> class.n]
            /\ res' = Term(Parse(expression), env, NoBinds)

\* anthropic_accessibility_expression on one cell of the two proximity maps
Accessibility ==
    /\ fn = "none"
    /\ UNCHANGED <<mainvars, queuevars, regionvars, formvars>>
    /\ \E anthropic \in ProximityClasses, roads \in ProximityClasses :
        LET expression == anthropic_accessibility_expression("anthropic", "roads")
            env == [m \in {"anthropic", "roads"} |->
                        IF m = "anthropic" THEN ClassValue(anthropic) ELSE ClassValue(roads)]
        IN  /\ fn' = "anthropic_accessibility"
            /\ arg' = [anthropic |-> anthropic, roads |-> roads]
            /\ res' = Calc(expression, env)

\* recode_map with SUITABILITY_SCORES on one cell of the map of the test:
\* r.null sets a NULL cell to 0, r.recode applies the rules
Suitability ==
    /\ fn = "none"
    /\ UNCHANGED <<mainvars, queuevars, regionvars, formvars>>
    /\ \E class \in DOMAIN CORINE_LAND_COVER_CLASSES :
        LET cell == CORINE_LAND_COVER_CLASSES[class]
        IN  /\ fn' = "recode_map"
            /\ arg' = [class |-> class]
            /\ res' = r_recode_scores(SUITABILITY_SCORES, IF cell.null THEN I(0) ELSE cell)

\* build_mobility_function on one cell of the population map
MobilityFunction ==
    /\ fn = "none"
    /\ UNCHANGED <<mainvars, queuevars, regionvars, formvars>>
    /\ \E kappa \in 1 .. MaxKappa, alpha \in 0 .. 1, population \in 0 .. MaxPopulation :
        LET expression ==
                build_mobility_function(Num(I(MOBILITY_CONSTANT)), Float(Rat(kappa, 1)),
                                        Float(Rat(alpha, 1)), Id("population"),
                                        Num(I(MOBILITY_SCORE)))
            env == [m \in {"population"} |-> Rat(population, 1)]
        IN  /\ fn' = "build_mobility_function"
            /\ arg' = [kappa |-> kappa, alpha |-> alpha, population |-> population]
            /\ res' = Calc(expression, env)

\* the unmet demand of one cell: its distance is recoded with
\* spectrum_distances, main passes the coefficients MOBILITY_COEFFICIENTS[4]
UnmetDemand ==
    /\ fn = "none"
    /\ UNCHANGED <<mainvars, queuevars, regionvars, formvars>>
    /\ \E metres \in Metres, population \in 1 .. MaxPopulation :
        LET class == r_recode(spectrum_distances, I(metres))
            env == [m \in {"distance_categories", "demand"} |->
                        IF m = "distance_categories" THEN class ELSE Rat(population, 1)]
            expression ==
                compute_unmet_demand("distance_categories", MOBILITY_CONSTANT,
                                     MOBILITY_COEFFICIENTS[4], "demand", MOBILITY_SCORE)
        IN  /\ fn' = "unmet_demand"
            /\ arg' = [metres |-> metres, class |-> class.n, population |-> population]
            /\ res' = Calc(expression, env)

Start(db) == [db |-> db, ok |-> TRUE, tmp |-> 0]

\* the three normalisation functions on one layer
Normalize ==
    /\ fn = "none"
    /\ UNCHANGED <<mainvars, queuevars, regionvars, formvars>>
    /\ \E variant \in {"normalize_map", "normalize_estimap", "normalize_first"},
       layer \in Rasters :
        LET st == Start([m \in {"layer"} |-> layer])
        IN  /\ fn' = "normalize"
            /\ arg' = [variant |-> variant, layer |-> layer]
            /\ res' = CASE variant = "normalize_map" -> normalize_map(st, "layer", "out")
                        [] variant = "normalize_estimap" ->
                                normalize_estimap(st, "layer", "out")
                        [] OTHER -> normalize_first(st, "layer", "out")

LayerName(i) == "layer" \o ToString(i)

\* the maps added to the first one of a component: absent, keeping or
\* raising a cell
Addends == [CellIds -> {NULLV, Rat(0, 1), Rat(1, 1)}]

\* zerofy_and_normalise_component on 1 .. MaxLayers layers, with the two
\* threshholds that main passes
ZerofyAndNormalise ==
    /\ fn = "none"
    /\ UNCHANGED <<mainvars, queuevars, regionvars, formvars>>
    /\ \E n \in 1 .. MaxLayers, threshhold \in {THRESHHOLD_ZERO, THRESHHOLD_0001} :
        \E first \in Rasters, added \in [2 .. n -> Addends] :
            LET layers == [i \in 1 .. n |-> IF i = 1 THEN first ELSE added[i]]
                names == [i \in 1 .. n |-> LayerName(i)]
                db == [m \in {LayerName(i) : i \in 1 .. n} |->
                            layers[CHOOSE i \in 1 .. n : LayerName(i) = m]]
            IN  /\ fn' = "zerofy_and_normalise_component"
                /\ arg' = [layers |-> layers, threshhold |-> threshhold]
                /\ res' = zerofy_and_normalise_component(Start(db), names, threshhold, "out")

\* the normalised values 0, 0.05 .. 1 of a component
NormalisedValues == {Rat(k, 20) : k \in 0 .. 20}

\* distances to the artificial surfaces: the bounds of the default rules, and
\* 0.0000005, 0.000001, 0.000005, 0.00001 and 0.5 m past them
ArtificialDistances ==
    {Decimal(whole, frac) : whole \in {0, 250, 500, 1000, 5000, 10000, 20000},
                            frac \in {0, 50, 100, 500, 1000, 50000000}}

\* the number of classes of a default rule set
ClassesOf(rules) == IF rules = "recreation_potential_categories" THEN 3 ELSE 5

\* r.recode of one cell with one of the default rule sets
Classification ==
    /\ fn = "none"
    /\ UNCHANGED <<mainvars, queuevars, regionvars, formvars>>
    /\ \/ \E v \in NormalisedValues :
            /\ fn' = "r.recode"
            /\ arg' = [rules |-> "recreation_potential_categories", value |-> v]
            /\ res' = r_recode(recreation_potential_categories, v)
       \/ \E v \in ArtificialDistances :
            /\ fn' = "r.recode"
            /\ arg' = [rules |-> "artificial_distances", value |-> v]
            /\ res' = r_recode_decimal(artificial_distance_categories, v)
       \/ \E metres \in Metres :
            /\ fn' = "r.recode"
            /\ arg' = [rules |-> "spectrum_distances", value |-> I(metres)]
            /\ res' = r_recode(spectrum_distances, I(metres))

CalcInit == CalcIdle /\ MainIdle /\ QueueIdle /\ RegionIdle /\ FormIdle

CalcNext ==
    \/ Spectrum
    \/ Attractiveness
    \/ Mobility
    \/ Normalize
    \/ ZerofyAndNormalise
    \/ Accessibility
    \/ Suitability
    \/ MobilityFunction
    \/ UnmetDemand
    \/ Classification

SpecCalc == CalcInit /\ [][CalcNext]_vars

(***************************************************************************)
(* main() of r.estimap.recreation, block by block.  A block is an operator *)
(* from the state of the run (a record of the variables) to the state      *)
(* after it; a Python exception or grass.fatal ends the run in "crashed".  *)
(***************************************************************************)
Run ==
    [given |-> given, pc |-> pc, error |-> error,
     land_component |-> land_component, water_component |-> water_component,
     natural_component |-> natural_component,
     recreation_potential_component |-> recreation_potential_component,
     infrastructure_component |-> infrastructure_component,
     recreation_spectrum |-> recreation_spectrum, rasters |-> rasters,
     nulled |-> nulled, csv |-> csv, trace |-> trace, flags |-> flags,
     metric |-> metric, at_exit |-> at_exit, MASK |-> MASK]

Becomes(m) ==
    /\ given' = m.given
    /\ pc' = m.pc
    /\ error' = m.error
    /\ land_component' = m.land_component
    /\ water_component' = m.water_component
    /\ natural_component' = m.natural_component
    /\ recreation_potential_component' = m.recreation_potential_component
    /\ infrastructure_component' = m.infrastructure_component
    /\ recreation_spectrum' = m.recreation_spectrum
    /\ rasters' = m.rasters
    /\ nulled' = m.nulled
    /\ csv' = m.csv
    /\ trace' = m.trace
    /\ flags' = m.flags
    /\ metric' = m.metric
    /\ at_exit' = m.at_exit
    /\ MASK' = m.MASK

Running(m) == m.pc # "crashed"

\* the statements of a block run one after the other: F continues from the
\* state m unless the run has ended there
Then(m, F(_)) == With(m, LAMBDA x : IF Running(x) THEN F(x) ELSE x)

Crash(m, exception) == [m EXCEPT !.pc = "crashed", !.error = exception]

Goto(m, label) == Then(m, LAMBDA x : [x EXCEPT !.pc = label])

\* the trace of the run: the step, its input maps, its output map and the
\* maps whose NULL cells had been set to 0 when it started
Step(m, step, maps, output) ==
    [m EXCEPT !.trace = Append(@, [step |-> step, maps |-> maps, output |-> output,
                                   nulled |-> m.nulled])]

\* the cells of the maps are not part of the state of a run: every map that
\* exists holds the cells 1 .. Cells
Content == [c \in CellIds |-> Rat(c, 1)]

Db(m) == Start([n \in m.rasters |-> Content])

\* the outcome st of a function on the raster database, in the state of the run
Outcome(m, st, exception) ==
    With(st, LAMBDA s : IF s.ok THEN [m EXCEPT !.rasters = DOMAIN s.db]
                        ELSE Crash(m, exception))

\* a step finds the maps missing that it expects: the run ends with the
\* exception; the trace keeps the missing maps
Missing(m, maps, exception) ==
    With(Step(m, "missing", maps, ""), LAMBDA x : Crash(x, exception))

\* grass.fatal(message): the message, then sys.exit(1)
fatal(m, maps) == Missing(m, maps, "fatal")

\* main registers the maps for removal at exit
remove_map_at_exit(m, maps) == [m EXCEPT !.at_exit = @ \cup maps]

\* a GRASS command that reads the maps inputs and writes the map output
Command(m, inputs, output) ==
    IF ~(inputs \subseteq m.rasters) THEN Missing(m, inputs \ m.rasters, "CalledModuleError")
    ELSE IF output = "" THEN Crash(m, "CalledModuleError")
    ELSE [m EXCEPT !.rasters = @ \cup {output}]

EUCLIDEAN == "euclidean"

\* r.grow.distance(input=..., distance=..., metric=...); the call is kept in
\* the trace
r_grow_distance(m, input, distance, with_metric) ==
    Then(Command(m, {input}, distance), LAMBDA x :
         Step(x, "grow_distance", [input |-> input, metric |-> with_metric], distance))

\* r.null(map=..., null=0)
r_null(m, map) ==
    IF map \notin m.rasters THEN Missing(m, {map}, "CalledModuleError")
    ELSE [m EXCEPT !.nulled = @ \cup {map}]

\* r.mapcalc("{result} = {expression}"), the expression made of the maps inputs
r_mapcalc(m, result, expression, inputs) ==
    IF ~(inputs \subseteq m.rasters) THEN Missing(m, inputs \ m.rasters, "CalledModuleError")
    ELSE Outcome(m, mapcalc(Db(m), result, expression), "CalledModuleError")

\* tmp_map_name(name=...) in main
tmp(name) == tmp_map_name(Start(<<>>), name)

\* grassy_utilities.string_to_file(string, filename=None) called with the
\* keyword argument keyword
string_to_file(m, keyword) ==
    IF keyword \in {"string", "filename"} THEN m ELSE Crash(m, "TypeError")

\* grassy_utilities.recode_map: r.null of the input map, then r.recode
recode_map(m, raster, output) ==
    Then(r_null(m, raster), LAMBDA x : Command(x, {raster}, output))

\* utilities.append_map_to_component
append_map_to_component(raster, component_list) == Append(component_list, raster)

\* r.mask(raster=..., overwrite=True): the map, or with the flag i its
\* inverse, becomes the MASK in place of the one there is; the call is kept
\* in the trace
r_mask(m, raster, inverted) ==
    LET mask == IF inverted THEN "inverse of " \o raster ELSE raster
    IN  IF raster \notin m.rasters THEN Missing(m, {raster}, "CalledModuleError")
        ELSE Step([m EXCEPT !.MASK = mask], "mask", {raster}, mask)

\* the body of compute_attractiveness, lines 143-165: r.grow_distance into
\* a temporary map, the inverted MASK if a mask is given, and then `if score:`,
\* where score is no name of the function or of the module
attractiveness_body(m, arguments) ==
    Then(r_grow_distance(m, arguments.raster,
                         tmp(arguments.raster \o "_" \o arguments.metric),
                         arguments.metric), LAMBDA m1 :
    Then(IF "mask" \in DOMAIN arguments THEN r_mask(m1, arguments.mask, TRUE) ELSE m1,
         LAMBDA m2 : Crash(m2, "NameError")))

\* compute_attractiveness as r.estimap defines it, with **kwargs: the keyword
\* score is accepted and the body runs
compute_attractiveness_kwargs(m, arguments) ==
    With(Step(m, "attractiveness", arguments, ""), LAMBDA x :
         attractiveness_body(x, arguments))

\* distance_functions.compute_attractiveness called with the keyword arguments
\* arguments (keyword |-> value): a keyword that is no parameter is a
\* TypeError before the body runs.  The call is kept in the trace.
compute_attractiveness(m, arguments) ==
    With(Step(m, "attractiveness", arguments, ""), LAMBDA x :
         IF ~(DOMAIN arguments \subseteq {"raster", "metric", "constant", "kappa",
                                          "alpha", "mask", "output_name"})
         THEN Crash(x, "TypeError")
         ELSE attractiveness_body(x, arguments))

\* r.estimap get_coefficients: the values of the string, four or five of them
get_coefficients(coefficients_string) == coefficients_string

\* metric, constant, kappa, alpha[, score] = get_coefficients(...): main's
\* name metric is bound anew
Unpack(m, coefficients, names) ==
    IF Len(coefficients) # names THEN Crash(m, "ValueError")
    ELSE [m EXCEPT !.metric = coefficients[1]]

\* lines 792-1039: the names of the maps and of the files of rules
Names(m) ==
    LET landuse == Answer("landuse")
        suitability_scores == Answer("suitability_scores")
        landcover == IF Answer("landcover") = "" THEN landuse ELSE Answer("landcover")
        land_classes == Answer("land_classes")
    IN  Then([m EXCEPT !.metric = Answer("metric")], LAMBDA m0 :
        Then(IF landuse # "" /\ suitability_scores = ""
             THEN string_to_file(m0, "name") ELSE m0, LAMBDA m1 :
        Then(IF landuse # "" /\ suitability_scores # "" /\ HasColon(suitability_scores)
             THEN string_to_file(m1, "name") ELSE m1, LAMBDA m2 :
        Then(IF landcover # "" /\ land_classes = ""
             THEN string_to_file(m2, "name") ELSE m2, LAMBDA m3 :
        Then(IF landuse # "" /\ land_classes # "" /\ HasColon(land_classes)
             THEN Crash(m3, "NameError") ELSE m3, LAMBDA m4 :
        Then(IF HasColon(Answer("spectrum_distances"))
             THEN string_to_file(m4, "name") ELSE m4, LAMBDA m5 :
        Then(IF Present("mask") THEN r_mask(m5, Answer("mask"), FALSE) ELSE m5,
             LAMBDA m6 :
        Goto(m6, "land"))))))))

\* lines 1044-1068
LandComponent(m) ==
    LET suitability_map_name == tmp("suitability")
    IN  Then([m EXCEPT !.land_component = given["land"]], LAMBDA m1 :
        Then(IF Present("landuse")
             THEN recode_map(m1, Answer("landuse"), suitability_map_name)
             ELSE m1, LAMBDA m2 :
        Goto(IF Present("landuse")
             THEN [m2 EXCEPT !.land_component =
                                 append_map_to_component(suitability_map_name, @)]
             ELSE m2, "water")))

\* lines 1070-1170
WaterComponent(m) ==
    LET lakes_coefficients == get_coefficients(Values("lakes_coefficients"))
        bathing_water_coefficients == get_coefficients(Values("bathing_coefficients"))
    IN  Then([m EXCEPT !.water_component = given["water"]], LAMBDA m1 :
        Then(IF Present("lakes") THEN Unpack(m1, lakes_coefficients, 5) ELSE m1,
             LAMBDA m2 :
        Then(IF Present("lakes")
             THEN compute_attractiveness(m2,
                    [raster |-> Answer("lakes"), metric |-> EUCLIDEAN,
                     constant |-> lakes_coefficients[2], kappa |-> lakes_coefficients[3],
                     alpha |-> lakes_coefficients[4], score |-> lakes_coefficients[5],
                     mask |-> Answer("lakes")])
             ELSE m2, LAMBDA m3 :
        Then(IF Present("coastline")
             THEN compute_attractiveness(m3,
                    [raster |-> Answer("coastline"), metric |-> EUCLIDEAN,
                     constant |-> "WATER_PROXIMITY_CONSTANT",
                     alpha |-> "WATER_PROXIMITY_ALPHA",
                     kappa |-> "WATER_PROXIMITY_KAPPA",
                     score |-> "WATER_PROXIMITY_SCORE"])
             ELSE m3, LAMBDA m4 :
        Then(IF Present("bathing_water")
             THEN Unpack(m4, bathing_water_coefficients, 4) ELSE m4, LAMBDA m5 :
        Then(IF Present("bathing_water")
             THEN compute_attractiveness(m5,
                    [raster |-> Answer("bathing_water"), metric |-> EUCLIDEAN,
                     constant |-> bathing_water_coefficients[2],
                     kappa |-> bathing_water_coefficients[3],
                     alpha |-> bathing_water_coefficients[4]])
             ELSE m5, LAMBDA m6 :
        Goto(m6, "natural")))))))

\* lines 1172-1201
NaturalComponent(m) ==
    LET protected_areas == "protected_areas"
    IN  Then([m EXCEPT !.natural_component = given["natural"]], LAMBDA m1 :
        Then(IF Present("protected")
             THEN recode_map(m1, Answer("protected"), protected_areas)
             ELSE m1, LAMBDA m2 :
        Goto(IF Present("protected")
             THEN [m2 EXCEPT !.natural_component =
                                 append_map_to_component(protected_areas, @)]
             ELSE m2, "normalise_land")))

\* normalisation_functions.zerofy_and_normalise_component as main calls it
normalise(m, maps, threshhold, output_name) ==
    With(Step(m, "zerofy_and_normalise_component", maps, output_name), LAMBDA m1 :
    Then(Outcome(m1, zerofy_and_normalise_component(Db(m1), maps, threshhold,
                                                    output_name),
                 "zerofy_and_normalise_component"),
         LAMBDA x : Step(x, "normalise", maps, output_name)))

\* lines 1210-1234: every map of the land component is copied, the NULL cells
\* of the copy are set to 0 and the copy takes the place of the map
RECURSIVE subset_land(_, _)
subset_land(m, k) ==
    IF k = 0 THEN m
    ELSE Then(m, LAMBDA m0 :
         Then(r_mapcalc(m0, tmp(Head(m0.land_component)),
                        Name(Head(m0.land_component)), {Head(m0.land_component)}),
              LAMBDA m1 :
         Then(r_null(m1, tmp(Head(m0.land_component))), LAMBDA m2 :
         subset_land([m2 EXCEPT !.land_component =
                                    Append(Tail(@), tmp(Head(m0.land_component)))],
                     k - 1))))

Extend(m, maps) == [m EXCEPT !.recreation_potential_component = @ \o maps]

\* lines 1206-1248
NormaliseLand(m) ==
    LET land_component_map_name == tmp("land_component")
    IN  Then(subset_land([m EXCEPT !.recreation_potential_component = <<>>],
                         Len(m.land_component)), LAMBDA m1 :
        Then(IF Len(m1.land_component) > 1
             THEN normalise(m1, m1.land_component, THRESHHOLD_ZERO,
                            land_component_map_name)
             ELSE m1, LAMBDA m2 :
        Goto(remove_map_at_exit(Extend(m2, m2.land_component),
                                {m2.land_component[i] : i \in DOMAIN m2.land_component}),
             "normalise_water")))

\* lines 1250-1259
NormaliseWater(m) ==
    LET water_component_map_name == tmp("water_component")
    IN  Then(IF Len(m.water_component) > 1
             THEN normalise(m, m.water_component, THRESHHOLD_ZERO,
                            water_component_map_name)
             ELSE m, LAMBDA m1 :
        Goto(remove_map_at_exit(IF Len(m1.water_component) > 1
                                THEN Extend(m1, <<water_component_map_name>>)
                                ELSE Extend(m1, m1.water_component),
                                {water_component_map_name}), "normalise_natural"))

\* lines 1261-1275
NormaliseNatural(m) ==
    LET natural_component_map_name == tmp("natural_component")
    IN  Then(IF Len(m.natural_component) > 1
             THEN normalise(m, m.natural_component, THRESHHOLD_ZERO,
                            natural_component_map_name)
             ELSE m, LAMBDA m1 :
        Goto(remove_map_at_exit(IF Len(m1.natural_component) > 1
                                THEN Extend(m1, <<natural_component_map_name>>)
                                ELSE Extend(m1, m1.natural_component),
                                {natural_component_map_name}), "potential"))

\* r.estimap classify_recreation_component: r.recode of the component
classify_recreation_component(m, component, output_name) ==
    Then(Command(m, {component}, output_name),
         LAMBDA x : Step(x, "classify", <<component>>, output_name))

\* grassy_utilities.export_map: the map is renamed to the requested name
export_map(m, input_name, output_name) ==
    IF input_name \notin m.rasters THEN fatal(m, {input_name})
    ELSE Then(string_to_file(m, "filename"), LAMBDA x :
              [x EXCEPT !.rasters = (@ \ {input_name}) \cup {output_name}])

\* the name main binds to tmp_recreation_potential_categories after line 1315
tmp_recreation_potential_categories ==
    IF Present("potential") THEN Answer("potential") ELSE tmp(Answer("potential"))

\* lines 1277-1315
RecreationPotential(m) ==
    LET tmp_recreation_potential == tmp(tmp("recreation_potential"))
        categories == tmp(Answer("potential"))
    IN  Then(normalise(m, m.recreation_potential_component, THRESHHOLD_ZERO,
                       tmp_recreation_potential), LAMBDA m1 :
        Then(classify_recreation_component(m1, tmp_recreation_potential, categories),
             LAMBDA m2 :
        Goto(IF Present("potential")
             THEN export_map(m2, categories, Answer("potential"))
             ELSE m2, "infrastructure")))

\* compute_artificial_proximity: r.grow.distance, then r.recode of the distances
compute_artificial_proximity(m, raster, output_name) ==
    LET artificial_distances == tmp(raster)
        tmp_output == tmp(output_name)
    IN  Then(r_grow_distance(m, raster, artificial_distances, EUCLIDEAN), LAMBDA m1 :
        Then(Command(m1, {artificial_distances}, tmp_output), LAMBDA m2 :
        IF tmp_output \notin m2.rasters THEN fatal(m2, {tmp_output}) ELSE m2))

\* r.estimap compute_anthropic_accessibility
compute_artificial_accessibility(m, artificial_proximity, roads_proximity, output_name) ==
    IF ~({artificial_proximity, roads_proximity} \subseteq m.rasters)
    THEN fatal(m, {artificial_proximity, roads_proximity} \ m.rasters)
    ELSE Command(m, {artificial_proximity, roads_proximity}, tmp(output_name))

\* lines 1317-1368
Infrastructure(m) ==
    LET roads_proximity == tmp("roads_proximity")
        artificial_proximity == tmp("artificial_proximity")
        artificial_accessibility == tmp("artificial_accessibility")
    IN  IF ~any({"opportunity", "spectrum", "demand", "flow", "supply"})
        THEN Goto(m, "spectrum")
        ELSE IF ~(Present("artificial") /\ Present("roads"))
        THEN Goto([m EXCEPT !.infrastructure_component = given["infrastructure"]],
                  "spectrum")
        ELSE
        Then([m EXCEPT !.infrastructure_component = given["infrastructure"]], LAMBDA m1 :
        Then(compute_artificial_proximity(m1, Answer("roads"), "roads_proximity"),
             LAMBDA m2 :
        Then(compute_artificial_proximity(m2, Answer("artificial"),
                                          "artificial_proximity"), LAMBDA m3 :
        Then(compute_artificial_accessibility(m3, artificial_proximity, roads_proximity,
                                              "artificial_accessibility"), LAMBDA m4 :
        Goto([m4 EXCEPT !.infrastructure_component = Append(@, artificial_accessibility)],
             "spectrum")))))

\* r.estimap compute_recreation_spectrum
compute_recreation_spectrum(m, potential, opportunity, spectrum) ==
    Then(r_mapcalc(m, spectrum, recreation_spectrum_expression(potential, opportunity),
                   {potential, opportunity}),
         LAMBDA m1 : Step([m1 EXCEPT !.recreation_spectrum = spectrum],
                          "spectrum", <<potential, opportunity>>, spectrum))

\* lines 1381-1494
RecreationSpectrum(m) ==
    LET infrastructure_component_map_name == tmp("infrastructure_component")
        tmp_recreation_opportunity == tmp("recreation_opportunity")
        categories == tmp(Answer("opportunity"))
        tmp_recreation_opportunity_categories ==
            IF Present("opportunity") THEN Answer("opportunity") ELSE categories
        spectrum ==
            IF ~Present("spectrum") /\ any({"demand", "flow", "supply"})
            THEN tmp("recreation_spectrum") ELSE Answer("spectrum")
    IN  IF ~any({"spectrum", "demand", "flow", "supply"})
        THEN Goto(m, "valuation")
        ELSE
        Then(normalise(m, m.infrastructure_component, THRESHHOLD_ZERO,
                       infrastructure_component_map_name), LAMBDA m1 :
        Then(normalise(m1, <<infrastructure_component_map_name>>, THRESHHOLD_0001,
                       tmp_recreation_opportunity), LAMBDA m2 :
        Then(classify_recreation_component(m2, tmp_recreation_opportunity, categories),
             LAMBDA m3 :
        Then(IF Present("opportunity")
             THEN export_map(m3, categories, Answer("opportunity"))
             ELSE m3, LAMBDA m4 :
        Then(compute_recreation_spectrum(
                 IF ~Present("spectrum") /\ any({"demand", "flow", "supply"})
                 THEN remove_map_at_exit(m4, {spectrum}) ELSE m4,
                 tmp_recreation_potential_categories,
                                         tmp_recreation_opportunity_categories, spectrum),
             LAMBDA m5 :
        Goto(string_to_file(m5, "name"), "valuation"))))))

HIGHEST_RECREATION_CATEGORY == 9

\* "if({spectrum} == {highest_recreation_category}, {spectrum}, null())"
highest_spectrum_expression(spectrum) ==
    Id("if") \o Sym("(") \o Name(spectrum) \o Sym("==")
        \o Num(I(HIGHEST_RECREATION_CATEGORY)) \o Sym(",") \o Name(spectrum)
        \o Sym(",") \o Id("null") \o Sym("(") \o Sym(")") \o Sym(")")

\* lines 1496-1680
Valuation(m) ==
    LET highest_spectrum == "highest_recreation_spectrum"
        distance_to_highest_spectrum == tmp(highest_spectrum)
        distance_categories_to_highest_spectrum ==
            "categories_of_" \o distance_to_highest_spectrum
        tmp_crossmap == tmp("crossmap")
        demand ==
            IF any({"flow", "supply", "aggregation"}) /\ ~Present("demand")
            THEN tmp("demand") ELSE Answer("demand")
        flow ==
            IF ~Present("flow") /\ any({"supply", "aggregation"})
            THEN "flow" ELSE Answer("flow")
    IN  IF ~any({"demand", "flow", "supply", "aggregation"})
        THEN Goto(m, "supply")
        ELSE
        Then(Step(m, "valuation", <<m.recreation_spectrum>>, highest_spectrum),
             LAMBDA m1 :
        Then(r_mapcalc(m1, highest_spectrum,
                       highest_spectrum_expression(m1.recreation_spectrum),
                       {m1.recreation_spectrum}), LAMBDA m2 :
        Then(r_grow_distance(m2, highest_spectrum, distance_to_highest_spectrum,
                             m2.metric), LAMBDA m3 :
        Then(recode_map(remove_map_at_exit(m3, {distance_categories_to_highest_spectrum}),
                        distance_to_highest_spectrum,
                        distance_categories_to_highest_spectrum), LAMBDA m4 :
        Then(string_to_file(m4, "name"), LAMBDA m5 :
        Then(Command(m5, {distance_categories_to_highest_spectrum, Answer("base")},
                     tmp_crossmap), LAMBDA m6 :
        Then(IF Present("population") THEN m6 ELSE Crash(m6, "NameError"), LAMBDA m7 :
        Then(Command(m7, {tmp_crossmap, Answer("population")}, demand), LAMBDA m8 :
        Then(IF Present("unmet")
             THEN Command(m8, {distance_categories_to_highest_spectrum, demand},
                          Answer("unmet"))
             ELSE m8, LAMBDA m9 :
        Goto(IF flow # ""
             THEN Command(IF ~Present("flow") THEN remove_map_at_exit(m9, {flow}) ELSE m9,
                          {distance_categories_to_highest_spectrum, demand}, flow)
             ELSE m9, "supply"))))))))))

\* supply_and_use_functions.compute_supply: the tables are written as CSV files
\* named after supply_filename and use_filename
compute_supply(m, filenames) ==
    Step([m EXCEPT !.csv = @ \cup filenames], "supply", <<m.recreation_spectrum>>, "")

\* lines 1682-1720
SupplyTable(m) ==
    LET supply_parameters == {given[o][1] : o \in {q \in {"supply", "use"} : Present(q)}}
    IN  IF Present("aggregation") THEN Goto(compute_supply(m, supply_parameters), "returned")
        ELSE Goto(m, "returned")

(***************************************************************************)
(* Specification Spec: the options are given one by one in the order of    *)
(* the header, the parser accepts or rejects them, and main() runs.        *)
(***************************************************************************)
InputMaps ==
    {"land", "natural", "water", "infrastructure", "landuse", "landcover", "lakes",
     "coastline", "bathing_water", "protected", "artificial", "roads", "base",
     "aggregation", "population", "mask"}

MapsOf(o) == {given[o][i] : i \in DOMAIN given[o]}

GiveOption ==
    /\ pc = "options"
    /\ Cardinality({o \in OptionNames : Present(o)}) < MaxOptions
    /\ \E o \in OptionNames :
        /\ \A q \in OptionNames : Present(q) => OptionIndex(q) < OptionIndex(o)
        /\ \E answer \in Answers(o) : given' = [given EXCEPT ![o] = answer]
    /\ UNCHANGED <<pc, error, components, recreation_spectrum, rasters, nulled, csv,
                   trace, flags, metric, at_exit, MASK, calcvars, queuevars, regionvars, formvars>>

\* the flags of the header that a run may give
Flags == {"s"}

\* grass.parser(): the rules of the header; the maps named by the input
\* options exist in the mapset
Parser ==
    /\ pc = "options"
    /\ pc' = IF Accepted THEN "names" ELSE "rejected"
    /\ rasters' = IF Accepted THEN UNION {MapsOf(o) : o \in InputMaps} ELSE rasters
    /\ flags' \in IF Accepted THEN SUBSET Flags ELSE {flags}
    /\ UNCHANGED <<given, error, components, recreation_spectrum, nulled, csv, trace,
                   metric, at_exit, MASK, calcvars, queuevars, regionvars, formvars>>

At(label, m) ==
    /\ pc = label
    /\ \E x \in {m} : Becomes(x)
    /\ UNCHANGED <<calcvars, queuevars, regionvars, formvars>>

MainNames == At("names", Names(Run))

MainLand == At("land", LandComponent(Run))

MainWater == At("water", WaterComponent(Run))

MainNatural == At("natural", NaturalComponent(Run))

MainNormaliseLand == At("normalise_land", NormaliseLand(Run))

MainNormaliseWater == At("normalise_water", NormaliseWater(Run))

MainNormaliseNatural == At("normalise_natural", NormaliseNatural(Run))

MainPotential == At("potential", RecreationPotential(Run))

MainInfrastructure == At("infrastructure", Infrastructure(Run))

MainSpectrum == At("spectrum", RecreationSpectrum(Run))

MainValuation == At("valuation", Valuation(Run))

MainSupply == At("supply", SupplyTable(Run))

\* g.remove(pattern="tmp.{pid}*"): the names that tmp_map_name makes
IsTemporaryName(name) == Len(name) >= 4 /\ SubSeq(name, 1, 4) = "tmp."

\* grassy_utilities.remove_temporary_maps
remove_temporary_maps(m) ==
    [m EXCEPT !.rasters = {name \in @ : ~IsTemporaryName(name)}]

\* the callbacks of atexit, after main has returned, grass.fatal has called
\* sys.exit or an exception has ended main: the maps registered by
\* remove_map_at_exit, then remove_temporary_maps
AtExit(m) ==
    Goto(remove_temporary_maps([m EXCEPT !.rasters = @ \ m.at_exit, !.pc = "exiting"]),
         "exited")

MainExit ==
    /\ pc \in {"returned", "crashed"}
    /\ \E x \in {AtExit(Run)} : Becomes(x)
    /\ UNCHANGED <<calcvars, queuevars, regionvars, formvars>>

Init == MainIdle /\ CalcIdle /\ QueueIdle /\ RegionIdle /\ FormIdle

Next ==
    \/ GiveOption
    \/ Parser
    \/ MainNames
    \/ MainLand
    \/ MainWater
    \/ MainNatural
    \/ MainNormaliseLand
    \/ MainNormaliseWater
    \/ MainNormaliseNatural
    \/ MainPotential
    \/ MainInfrastructure
    \/ MainSpectrum
    \/ MainValuation
    \/ MainSupply
    \/ MainExit

Spec == Init /\ [][Next]_vars

(***************************************************************************)
(* Specification SpecQueue: j_9_process_Opportunity.  main starts one      *)
(* daemon thread that runs runthread, puts the cities on the queue and     *)
(* joins the queue; the thread takes a city, runs                          *)
(* work_on_ros().ros_component for it and reports the task done.           *)
(***************************************************************************)
MaxCities == 3

Cities == {"FUA" \o ToString(i) : i \in 1 .. MaxCities}

\* city_list: the cities of the member state, each of them once
CityLists ==
    {l \in UNION {[1 .. n -> Cities] : n \in 0 .. MaxCities} :
        \A i, j \in DOMAIN l : l[i] = l[j] => i = j}

\* ros_component, lines 47-56 and 98-99: the settings of the process
Settings ==
    {"os.environ['GISBASE']", "os.environ['PATH']", "sys.path", "os.environ['GISDBASE']",
     "region"}

\* ros_component, lines 120-191: the maps a task writes, named by the city
MapsOfCity(fua) ==
    {prefix \o fua : prefix \in {"ftr00", "ftr0", "ftr", "fte00", "fte0", "fte", "OS00",
                                 "OS0", "OS", "OSr", "RPnr", "ROS"}}

QueueInit ==
    /\ lista_citta \in CityLists
    /\ main_pc = "start"
    /\ cities_put = 0
    /\ queue = <<>>
    /\ unfinished_tasks = 0
    /\ worker = "none"
    /\ city = ""
    /\ processed = [c \in Cities |-> 0]
    /\ written = [c \in Cities |-> {}]
    /\ MainIdle
    /\ CalcIdle
    /\ RegionIdle
    /\ FormIdle

\* main, lines 65-70: the queue and the one thread
StartWorker ==
    /\ main_pc = "start"
    /\ main_pc' = "put"
    /\ worker' = "get"
    /\ UNCHANGED <<lista_citta, cities_put, queue, unfinished_tasks, city, processed,
                   written, calcvars, mainvars, regionvars, formvars>>

\* main, lines 72-74: queue.put((city, ms)) for the next city of the list, and
\* on to queue.join() after the last
Put ==
    /\ main_pc = "put"
    /\ IF cities_put < Len(lista_citta)
       THEN /\ queue' = Append(queue, lista_citta[cities_put + 1])
            /\ unfinished_tasks' = unfinished_tasks + 1
            /\ cities_put' = cities_put + 1
            /\ main_pc' = main_pc
       ELSE /\ main_pc' = "join"
            /\ UNCHANGED <<queue, unfinished_tasks, cities_put>>
    /\ UNCHANGED <<lista_citta, worker, city, processed, written, calcvars, mainvars, regionvars, formvars>>

\* main, lines 76-80: queue.join() returns when no task is unfinished
QueueJoin ==
    /\ main_pc = "join"
    /\ unfinished_tasks = 0
    /\ main_pc' = "done"
    /\ UNCHANGED <<lista_citta, cities_put, queue, unfinished_tasks, worker, city,
                   processed, written, calcvars, mainvars, regionvars, formvars>>

\* runthread, line 49: queue.get() waits for an item; the daemon thread ends
\* with the process when main has returned
Get ==
    /\ worker = "get"
    /\ main_pc # "done"
    /\ queue # <<>>
    /\ city' = Head(queue)
    /\ queue' = Tail(queue)
    /\ worker' = "task"
    /\ UNCHANGED <<lista_citta, main_pc, cities_put, unfinished_tasks, processed,
                   written, calcvars, mainvars, regionvars, formvars>>

\* runthread, lines 50-51: ros_component(city, ms) returns
Task ==
    /\ worker = "task"
    /\ written' = [written EXCEPT ![city] = @ \cup Settings \cup MapsOfCity(city)]
    /\ processed' = [processed EXCEPT ![city] = @ + 1]
    /\ worker' = "task_done"
    /\ UNCHANGED <<lista_citta, main_pc, cities_put, queue, unfinished_tasks, city,
                   calcvars, mainvars, regionvars, formvars>>

\* ros_component raises: sys.exit(-1) of line 43 before anything is written,
\* or the exception of a GRASS command after the settings; the exception ends
\* the thread
TaskRaises ==
    /\ worker = "task"
    /\ \E settings \in {{}, Settings} :
          written' = [written EXCEPT ![city] = @ \cup settings]
    /\ worker' = "ended"
    /\ UNCHANGED <<lista_citta, main_pc, cities_put, queue, unfinished_tasks, city,
                   processed, calcvars, mainvars, regionvars, formvars>>

\* runthread, lines 53-54: queue.task_done()
TaskDone ==
    /\ worker = "task_done"
    /\ unfinished_tasks' = unfinished_tasks - 1
    /\ worker' = "get"
    /\ UNCHANGED <<lista_citta, main_pc, cities_put, queue, city, processed, written,
                   calcvars, mainvars, regionvars, formvars>>

MainThread == StartWorker \/ Put \/ QueueJoin

WorkerThread == Get \/ Task \/ TaskRaises \/ TaskDone

QueueNext ==
    \/ StartWorker
    \/ Put
    \/ QueueJoin
    \/ Get
    \/ Task
    \/ TaskRaises
    \/ TaskDone

SpecQueue == QueueInit /\ [][QueueNext]_vars

\* the threads are scheduled: a thread that can take a step takes one
SpecQueueFair == SpecQueue /\ WF_vars(MainThread) /\ WF_vars(WorkerThread)

(***************************************************************************)
(* Specification SpecRegion: the region calls of the two main().  The       *)
(* blocks between them run GRASS commands, any of which may fail and end    *)
(* main with CalledModuleError; the input options are taken to be given as  *)
(* the rules of the header require.                                        *)
(***************************************************************************)
Scripts == {"r.estimap", "r.estimap.recreation"}

\* the option of the flow map: mobility in r.estimap, flow in r.estimap.recreation
Flow(s) == IF s = "r.estimap" THEN "mobility" ELSE "flow"

\* the output options, and the input option aggregation
Requestable(s) ==
    {"potential", "opportunity", "spectrum", "demand", Flow(s), "supply", "aggregation"}

\* #%rules of the outputs: one of potential, spectrum, demand, flow, supply is
\* required, and opportunity requires one of spectrum, demand, flow, supply
RequestAccepted(s, options) ==
    /\ options \cap {"potential", "spectrum", "demand", Flow(s), "supply"} # {}
    /\ "opportunity" \in options
            => options \cap {"spectrum", "demand", Flow(s), "supply"} # {}

\* the region that the process computes in
RegionInForce == IF WIND_OVERRIDE THEN temp_region ELSE WIND

\* grass.use_temp_region(): the region in force is saved as the temporary
\* region, which WIND_OVERRIDE names from then on
use_temp_region(r) ==
    [r EXCEPT !.temp_region = IF r.WIND_OVERRIDE THEN r.temp_region ELSE r.WIND,
              !.WIND_OVERRIDE = TRUE, !.use_calls = @ + 1]

\* grass.del_temp_region(): unsets WIND_OVERRIDE and removes the region it named
del_temp_region(r) ==
    [r EXCEPT !.temp_region = "", !.WIND_OVERRIDE = FALSE, !.del_calls = @ + 1]

\* g.region(raster=...): sets the region in force to that of the map
g_region(r, raster) ==
    IF r.WIND_OVERRIDE THEN [r EXCEPT !.temp_region = raster]
    ELSE [r EXCEPT !.WIND = raster]

Regions ==
    [WIND |-> WIND, temp_region |-> temp_region, WIND_OVERRIDE |-> WIND_OVERRIDE,
     use_calls |-> use_calls, del_calls |-> del_calls]

RegionsBecome(r) ==
    /\ WIND' = r.WIND
    /\ temp_region' = r.temp_region
    /\ WIND_OVERRIDE' = r.WIND_OVERRIDE
    /\ use_calls' = r.use_calls
    /\ del_calls' = r.del_calls

RegionInit ==
    /\ script \in Scripts
    /\ landuse_extent = FALSE
    /\ requested = {}
    /\ at = "parser"
    /\ WIND = "user"
    /\ temp_region = ""
    /\ WIND_OVERRIDE = FALSE
    /\ use_calls = 0
    /\ del_calls = 0
    /\ MainIdle
    /\ CalcIdle
    /\ QueueIdle
    /\ FormIdle

\* grass.parser(): the flag -e and the options of an accepted command line
RegionParser ==
    /\ at = "parser"
    /\ landuse_extent' \in BOOLEAN
    /\ \E options \in SUBSET Requestable(script) :
        /\ RequestAccepted(script, options)
        /\ requested' = options
    /\ at' = "region"
    /\ UNCHANGED <<script, WIND, temp_region, WIND_OVERRIDE, use_calls, del_calls,
                   calcvars, mainvars, queuevars, formvars>>

\* r.estimap 2644-2649, r.estimap.recreation 1034-1039: if landuse_extent
CareAboutRegion ==
    /\ at = "region"
    /\ RegionsBecome(IF landuse_extent THEN g_region(use_temp_region(Regions), "landuse")
                     ELSE Regions)
    /\ at' = "components"
    /\ UNCHANGED <<script, landuse_extent, requested, calcvars, mainvars, queuevars, formvars>>

\* r.estimap 2651-3100, r.estimap.recreation 1041-1494: the components, the
\* potential, the opportunity and the spectrum; no region call
ComponentsToSpectrum ==
    /\ at = "components"
    /\ at' = "valuation"
    /\ UNCHANGED <<script, landuse_extent, requested, WIND, temp_region, WIND_OVERRIDE,
                   use_calls, del_calls, calcvars, mainvars, queuevars, formvars>>

\* r.estimap 3102-3246: if demand or mobility or supply, use_temp_region and
\* g.region(raster=population) at 3169-3170.
\* r.estimap.recreation 1496-1680: if any([demand, flow, supply, aggregation]),
\* string_to_file(..., name=...) of line 1538 raises TypeError, before the
\* use_temp_region of line 1560
ValuationTables ==
    /\ at = "valuation"
    /\ IF script = "r.estimap"
       THEN /\ at' = "supply"
            /\ RegionsBecome(IF requested \cap {"demand", "mobility", "supply"} # {}
                             THEN g_region(use_temp_region(Regions), "population")
                             ELSE Regions)
       ELSE /\ at' = IF requested \cap {"demand", "flow", "supply", "aggregation"} # {}
                     THEN "crashed" ELSE "supply"
            /\ RegionsBecome(Regions)
    /\ UNCHANGED <<script, landuse_extent, requested, calcvars, mainvars, queuevars, formvars>>

\* r.estimap 3248-3263: if supply, del_temp_region and the supply table;
\* r.estimap.recreation 1682-1711: the supply table, no region call
SupplyTableBlock ==
    /\ at = "supply"
    /\ RegionsBecome(IF script = "r.estimap" /\ "supply" \in requested
                     THEN del_temp_region(Regions) ELSE Regions)
    /\ at' = "aggregate"
    /\ UNCHANGED <<script, landuse_extent, requested, calcvars, mainvars, queuevars, formvars>>

\* r.estimap 3265-3320: if aggregation, g.region(raster=aggregation) and
\* g.region(zoom='MASK') for every category of the map ("aggregation" stands
\* for both); r.estimap.recreation has no such block
AggregatePerRegion ==
    /\ at = "aggregate"
    /\ RegionsBecome(IF script = "r.estimap" /\ "aggregation" \in requested
                     THEN g_region(Regions, "aggregation") ELSE Regions)
    /\ at' = "restore"
    /\ UNCHANGED <<script, landuse_extent, requested, calcvars, mainvars, queuevars, formvars>>

\* r.estimap 3322-3326, r.estimap.recreation 1713-1716: if landuse_extent,
\* del_temp_region; main returns
RestoreRegion ==
    /\ at = "restore"
    /\ RegionsBecome(IF landuse_extent THEN del_temp_region(Regions) ELSE Regions)
    /\ at' = "returned"
    /\ UNCHANGED <<script, landuse_extent, requested, calcvars, mainvars, queuevars, formvars>>

\* a GRASS command of the block raises CalledModuleError
BlockFails ==
    /\ at \in {"region", "components", "valuation", "supply", "aggregate", "restore"}
    /\ at' = "crashed"
    /\ UNCHANGED <<script, landuse_extent, requested, WIND, temp_region, WIND_OVERRIDE,
                   use_calls, del_calls, calcvars, mainvars, queuevars, formvars>>

RegionNext ==
    \/ RegionParser
    \/ CareAboutRegion
    \/ ComponentsToSpectrum
    \/ ValuationTables
    \/ SupplyTableBlock
    \/ AggregatePerRegion
    \/ RestoreRegion
    \/ BlockFails

SpecRegion == RegionInit /\ [][RegionNext]_vars

(***************************************************************************)
(* The generated form (qgis-plugin/gui_core).  A parameter of the module   *)
(* is a gtask record; Factory.new_widget gives it the widget class whose   *)
(* can_handle accepts it.  A widget holds a text (line edits, combo boxes, *)
(* the colour button), a number (spin boxes) and the state of the          *)
(* check box Transparent.                                                  *)
(***************************************************************************)
Parameter(name, type, prompt, default) ==
    [name |-> name, type |-> type, prompt |-> prompt, default |-> default]

\* the parameters of the module of the form
params ==
    <<Parameter("output", "string", "", ""), Parameter("layer", "string", "layer", "1"),
      Parameter("color", "string", "color", "none"), Parameter("scale", "float", "", "1")>>

ParamNames == {params[i].name : i \in DOMAIN params}

gtask(name) == params[CHOOSE i \in DOMAIN params : params[i].name = name]

\* the flags of the module of the form
FormFlags == {"o", "overwrite"}

\* the texts that the user types or selects
Texts == {"", "1", "2"}

\* the colours of the colour dialog, as red:green:blue
Colours == {"255:0:0", "0:0:255"}

MaxFloat == 2

SELECT_COLOR == "Select color"

\* Factory.new_widget: the can_handle of the widget classes
WidgetClass(task) ==
    IF task.type = "string" /\ task.prompt = "color" THEN "Colors"
    ELSE IF task.type = "string" /\ task.prompt = "layer" THEN "Layers"
    ELSE IF task.type = "float" THEN "SimpleFloat"
    ELSE "DefaultWidget"

\* Python float() of the text of a whole number
float(text) == CHOOSE v \in 0 .. 9 : ToString(v) = text

\* Python str() of a float holding a whole number
str(value) == ToString(value) \o ".0"

\* the constructors of the widget classes: setText, setEditText or setValue
\* of the default if there is one
NewWidget(task) ==
    LET class == WidgetClass(task)
    IN  IF class = "Colors"
        THEN [text |-> IF task.default = "none" THEN SELECT_COLOR ELSE task.default,
              value |-> 0, transparent |-> FALSE]
        ELSE IF class = "SimpleFloat"
        THEN [text |-> "", value |-> IF task.default # "" THEN float(task.default) ELSE 0,
              transparent |-> FALSE]
        ELSE [text |-> task.default, value |-> 0, transparent |-> FALSE]

Form == [codeDict |-> codeDict, flagList |-> flagList, code_string |-> code_string]

RECURSIVE FlagString(_)
FlagString(list) ==
    IF list = <<>> THEN ""
    ELSE FlagString(SubSeq(list, 1, Len(list) - 1))
            \o (IF Len(list[Len(list)]) = 1 THEN " -" ELSE " --") \o list[Len(list)]

\* Parameters.code_string_changer: the flags and the key=value of the
\* dictionary, in the order of the dictionary
code_string_changer(f) ==
    [f EXCEPT !.code_string =
        [flags |-> FlagString(f.flagList),
         items |-> {key \o "=" \o f.codeDict[key] : key \in DOMAIN f.codeDict}]]

\* Parameters.code_dict_changer
code_dict_changer(f, task, text) ==
    LET dict == f.codeDict
        name == task.name
    IN  code_string_changer(
            [f EXCEPT !.codeDict =
                IF text # "" /\ (text # task.default \/ name = "layer")
                THEN [key \in DOMAIN dict \cup {name} |->
                            IF key = name THEN text ELSE dict[key]]
                ELSE [key \in DOMAIN dict \ {name} |-> dict[key]]])

\* Colors.change_command: the layout holds the button and, with the default
\* none, the check box Transparent
Colors_change_command(f, task, widget) ==
    IF task.default = "none"
    THEN IF ~widget.transparent
         THEN IF widget.text # SELECT_COLOR THEN code_dict_changer(f, task, widget.text)
              ELSE f
         ELSE code_dict_changer(f, task, "")
    ELSE code_dict_changer(f, task, widget.text)

FormBecomes(f) ==
    /\ codeDict' = f.codeDict
    /\ flagList' = f.flagList
    /\ code_string' = f.code_string

FormInit ==
    /\ widgets = [name \in ParamNames |-> NewWidget(gtask(name))]
    /\ codeDict = <<>>
    /\ flagList = <<>>
    /\ code_string = <<>>
    /\ command = <<>>
    /\ edited = {}
    /\ MainIdle
    /\ CalcIdle
    /\ QueueIdle
    /\ RegionIdle

\* the user changes the text of a line edit or of a combo box: textChanged
TextChanged ==
    \E name \in ParamNames, text \in Texts :
        /\ WidgetClass(gtask(name)) \in {"DefaultWidget", "Layers"}
        /\ text # widgets[name].text
        /\ widgets' = [widgets EXCEPT ![name].text = text]
        /\ FormBecomes(code_dict_changer(Form, gtask(name), text))
        /\ edited' = edited \cup {name}
        /\ UNCHANGED <<command, calcvars, mainvars, queuevars, regionvars>>

\* the user changes the number of a spin box: valueChanged, SimpleFloat
ValueChanged ==
    \E name \in ParamNames, value \in 0 .. MaxFloat :
        /\ WidgetClass(gtask(name)) = "SimpleFloat"
        /\ value # widgets[name].value
        /\ widgets' = [widgets EXCEPT ![name].value = value]
        /\ FormBecomes(code_dict_changer(Form, gtask(name), str(value)))
        /\ edited' = edited \cup {name}
        /\ UNCHANGED <<command, calcvars, mainvars, queuevars, regionvars>>

\* the user checks or unchecks Transparent: stateChanged
TransparentChanged ==
    \E name \in ParamNames :
        /\ WidgetClass(gtask(name)) = "Colors"
        /\ gtask(name).default = "none"
        /\ LET widget == [widgets[name] EXCEPT !.transparent = ~@]
           IN  /\ widgets' = [widgets EXCEPT ![name] = widget]
               /\ FormBecomes(Colors_change_command(Form, gtask(name), widget))
        /\ edited' = edited \cup {name}
        /\ UNCHANGED <<command, calcvars, mainvars, queuevars, regionvars>>

\* gselect.Colors.color_picker: the user picks a colour in the dialog
color_picker ==
    \E name \in ParamNames, colour \in Colours :
        /\ WidgetClass(gtask(name)) = "Colors"
        /\ LET widget == [widgets[name] EXCEPT !.text = colour]
           IN  /\ widgets' = [widgets EXCEPT ![name] = widget]
               /\ FormBecomes(Colors_change_command(Form, gtask(name), widget))
        /\ edited' = edited \cup {name}
        /\ UNCHANGED <<command, calcvars, mainvars, queuevars, regionvars>>

\* Flags.change_command: the user checks or unchecks the box of a flag
FlagChanged ==
    \E flag \in FormFlags :
        LET checked == \E i \in DOMAIN flagList : flagList[i] = flag
            list == IF checked THEN SelectSeq(flagList, LAMBDA x : x # flag)
                    ELSE Append(flagList, flag)
        IN  /\ FormBecomes(code_string_changer([Form EXCEPT !.flagList = list]))
            /\ UNCHANGED <<widgets, command, edited, calcvars, mainvars, queuevars,
                           regionvars>>

\* NewGUI.run_command: the one-letter flags, the long flags and the
\* dictionary are the arguments of grass.script.run_command
run_command ==
    /\ widgets # <<>>
    /\ command' =
        [flags |-> SelectSeq(flagList, LAMBDA x : Len(x) = 1),
         long_flags |-> {flagList[i] : i \in {j \in DOMAIN flagList : Len(flagList[j]) > 1}},
         kwargs |-> codeDict]
    /\ command' # command
    /\ UNCHANGED <<widgets, codeDict, flagList, code_string, edited, calcvars, mainvars,
                   queuevars, regionvars>>

FormNext ==
    \/ TextChanged
    \/ ValueChanged
    \/ TransparentChanged
    \/ color_picker
    \/ FlagChanged
    \/ run_command

SpecForm == FormInit /\ [][FormNext]_vars

(***************************************************************************)
(* What the documentation states, computed on the cell values directly.    *)
(***************************************************************************)
Same(x, y) ==
    /\ x.err = y.err
    /\ x.null = y.null
    /\ ~x.null => (Leq(x, y) /\ Leq(y, x))

\* ( constant + kappa ) / ( kappa + exp(alpha * distance) ) [ * score ]
DocumentedAttractiveness(constant, kappa, alpha, distance, score) ==
    LET base == VDiv(VAdd(I(constant), I(kappa)),
                     VAdd(I(kappa), VExp(VMul(I(alpha), Rat(distance, 1)))))
    IN  IF score = 0 THEN base ELSE VMul(base, I(score))

\* if L <> 0 then (1 + kappa) / (kappa + exp(-alpha * L)) * 52, else 0
DocumentedMobility(kappa, alpha, population) ==
    IF population = 0 THEN Rat(0, 1)
    ELSE VMul(VDiv(VAdd(Rat(1, 1), Rat(kappa, 1)),
                   VAdd(Rat(kappa, 1), VExp(VMul(Rat(-alpha, 1), Rat(population, 1))))),
              I(52))

\* the docstring's table of anthropic_accessibility_expression: the rows are
\* the classes of the proximity to anthropic surfaces, the columns those of
\* the proximity to roads
DocumentedAccessibility ==
    <<<<1, 1, 2, 3, 4>>,
      <<1, 1, 2, 3, 4>>,
      <<2, 2, 2, 4, 5>>,
      <<3, 3, 4, 5, 5>>,
      <<3, 4, 4, 5, 5>>>>

\* the table of compute_mobility: the band of a distance class and the row
\* of the coefficients listed for it ("0 to 1" is class 1 and row 0)
BandRow(class) == class - 1

DocumentedFlowTerm(class) ==
    Parse(build_mobility_function(Num(I(MOBILITY_CONSTANT)),
                                  Float(MOBILITY_COEFFICIENTS[BandRow(class)][1]),
                                  Float(MOBILITY_COEFFICIENTS[BandRow(class)][2]),
                                  Id("demand"), Num(I(MOBILITY_SCORE))))

MinCell(raster) ==
    raster[CHOOSE c \in NonNull(raster) : \A e \in NonNull(raster) : Leq(raster[c], raster[e])]

MaxCell(raster) ==
    raster[CHOOSE c \in NonNull(raster) : \A e \in NonNull(raster) : Leq(raster[e], raster[c])]

\* (x - min) / (max - min) of every cell of a layer with max > min
MinMax(raster) ==
    [c \in CellIds |->
        VDiv(VSub(VFloat(raster[c]), MinCell(raster)),
             VSub(MaxCell(raster), MinCell(raster)))]

HasRange(raster) ==
    NonNull(raster) # {} /\ ~Leq(MaxCell(raster), MinCell(raster))

RECURSIVE SumLayers(_, _)
SumLayers(layers, c) ==
    IF Len(layers) = 1 THEN layers[1][c]
    ELSE VAdd(layers[1][c], SumLayers(Tail(layers), c))

SumOf(layers) == [c \in CellIds |-> SumLayers(layers, c)]

\* values below the threshhold become 0
Flatten0(raster, threshhold) ==
    [c \in CellIds |->
        IF raster[c].null THEN NULLV
        ELSE IF ~Leq(threshhold, raster[c]) THEN I(0) ELSE raster[c]]

SameRaster(a, b) == \A c \in CellIds : Same(a[c], b[c])

Written(st, name) == st.ok /\ name \in DOMAIN st.db

\* main is over: it has returned, or an exception has ended it
Ended == pc \in {"returned", "crashed"}

OutputMaps == {"potential", "opportunity", "spectrum", "demand", "unmet", "flow"}

MapSet(maps) == {maps[i] : i \in DOMAIN maps}

\* the step of the trace that sums the recreation potential
IsPotentialSum(step) ==
    step.step = "normalise" /\ step.output = tmp(tmp("recreation_potential"))

\* of a component of more than one map, maps holds the normalised sum only
OneMapOf(component, normalised, maps) ==
    Len(component) > 1
        => normalised \in MapSet(maps) /\ MapSet(component) \cap MapSet(maps) = {}

\* the NULL cells of map were 0 when step i of the trace started: r.null has
\* been applied to it, or it is the normalised sum of maps of which this holds
RECURSIVE Cleared(_, _)
Cleared(map, i) ==
    \/ map \in trace[i].nulled
    \/ \E j \in 1 .. i - 1 :
          /\ trace[j].step = "normalise"
          /\ trace[j].output = map
          /\ \A part \in MapSet(trace[j].maps) : Cleared(part, j)

FlattenIfPositive(raster, threshhold) ==
    IF Leq(threshhold, THRESHHOLD_ZERO) THEN raster ELSE Flatten0(raster, threshhold)

\* the coefficients option of the map given by lakes, coastline or bathing_water
CoefficientsOption(raster) ==
    CASE raster = Answer("lakes") -> "lakes_coefficients"
      [] raster = Answer("coastline") -> "coastline_coefficients"
      [] raster = Answer("bathing_water") -> "bathing_coefficients"

\* the keyword arguments of a call are the values of the coefficients
PassesCoefficients(arguments, coefficients) ==
    /\ arguments.metric = coefficients[1]
    /\ arguments.constant = coefficients[2]
    /\ arguments.kappa = coefficients[3]
    /\ arguments.alpha = coefficients[4]
    /\ Len(coefficients) > 4
        => "score" \in DOMAIN arguments /\ arguments.score = coefficients[5]

\* the step of the trace that grows the distances to the highest spectrum
IsDistanceToHighestSpectrum(step) ==
    step.step = "grow_distance" /\ step.output = tmp("highest_recreation_spectrum")

\* the city c has been put on the queue
Queued(c) == \E i \in 1 .. cities_put : lista_citta[i] = c

(***************************************************************************)
(* Claims                                                                  *)
(***************************************************************************)
\* C1: for every potential class p and opportunity class o in 1..3 the
\* spectrum expression (of r.estimap and of EnRoute_job_9c) yields
\* 3*(p-1)+o, the entry of the docstring table.
C1_SpectrumTable ==
    (fn = "spectrum" /\ arg.p \in 1 .. 3 /\ arg.o \in 1 .. 3)
        => res = I(3 * (arg.p - 1) + arg.o)

C1_Witness == fn = "spectrum" /\ arg.p = 2 /\ arg.o = 3 /\ res = I(6)

\* C2: the attractiveness expression evaluates to
\* (constant + kappa) / (kappa + exp(alpha * distance)), times score if given.
C2_AttractivenessFormula ==
    fn = "attractiveness"
        => Same(res, DocumentedAttractiveness(arg.constant, arg.kappa, arg.alpha,
                                               arg.distance, arg.score))

\* C3: the cells of the bands 0 to 1, 1 to 2, 2 to 3 and 3 to 4 km (classes
\* 1..4 of spectrum_distances) are computed with the kappa and alpha listed for
\* their band, and only the cells of the last band (class 5) get no flow.
C3_FlowBands ==
    fn = "mobility"
        => /\ arg.class \in 1 .. 4 => res = DocumentedFlowTerm(arg.class)
           /\ res = NullTerm <=> arg.class = 5

\* C4: a later stage of main runs only after the earlier stages have run: the
\* spectrum is cross-tabulated after two components (potential, opportunity)
\* have been classified, and the demand/flow/supply stage is entered after
\* the spectrum has been computed.
C4_StagesInOrder ==
    \A i \in DOMAIN trace :
        /\ trace[i].step = "spectrum"
            => \E j, k \in 1 .. i - 1 :
                    j < k /\ trace[j].step = "classify" /\ trace[k].step = "classify"
        /\ trace[i].step = "valuation"
            => \E j \in 1 .. i - 1 : trace[j].step = "spectrum"

\* C5: when main is over, every output map that was requested (potential,
\* opportunity, spectrum, demand, unmet, flow) exists under the requested name.
C5_RequestedOutputsWritten ==
    Ended => \A o \in OutputMaps : Present(o) => Answer(o) \in rasters

\* C6: when main is over and supply or use was given, the supply-table step
\* has run and has written the CSV files named by the given prefixes.
C6_SupplyTableWritten ==
    (Ended /\ any({"supply", "use"}))
        => /\ \E i \in DOMAIN trace : trace[i].step = "supply"
           /\ \A o \in {"supply", "use"} : Present(o) => Answer(o) \in csv

\* C7: the sum of the recreation potential takes, for each of the land, water
\* and natural components that holds more than one map, the normalised sum of
\* the component and none of the maps of the component.
C7_OneMapPerComponent ==
    \A i \in DOMAIN trace :
        IsPotentialSum(trace[i])
            => /\ OneMapOf(land_component, tmp("land_component"), trace[i].maps)
               /\ OneMapOf(water_component, tmp("water_component"), trace[i].maps)
               /\ OneMapOf(natural_component, tmp("natural_component"), trace[i].maps)

\* C8: every map that is normalised has had its NULL cells set to 0 before,
\* itself or, for the result of an earlier normalisation, the maps it was
\* computed from.
C8_NullsClearedBeforeNormalisation ==
    \A i \in DOMAIN trace :
        trace[i].step = "normalise"
            => \A map \in MapSet(trace[i].maps) : Cleared(map, i)

\* C11: every call of compute_attractiveness for the lakes, coastline or
\* bathing_water map passes the metric, constant, kappa, alpha and (if it has
\* one) score of that input's own coefficients option.
C11_OwnCoefficients ==
    \A i \in DOMAIN trace :
        trace[i].step = "attractiveness"
            => PassesCoefficients(trace[i].maps,
                                  Values(CoefficientsOption(trace[i].maps.raster)))

\* C12: when main is over and demand, flow or supply was asked for, the
\* distance map to the areas of highest recreation spectrum has been grown,
\* and the metric main holds for it from the water component on, and grows it
\* with, is the answer of the option metric.
C12_MetricOfTheOption ==
    /\ (Ended /\ any({"demand", "flow", "supply"}))
            => \E i \in DOMAIN trace : IsDistanceToHighestSpectrum(trace[i])
    /\ \A i \in DOMAIN trace :
            IsDistanceToHighestSpectrum(trace[i])
                => trace[i].maps.metric = Answer("metric")
    /\ pc \notin {"options", "rejected", "names"} => metric = Answer("metric")

\* C13: the task of a city is run at most once, main passes queue.join() only
\* after the task of every city of the list has returned and been reported
\* done, and the task of every city that is put on the queue does return.
C13_EveryCityOnce ==
    /\ [](\A c \in Cities : processed[c] <= 1)
    /\ [](main_pc = "done"
            => /\ unfinished_tasks = 0
               /\ \A i \in DOMAIN lista_citta : processed[lista_citta[i]] = 1)
    /\ \A c \in Cities : [](Queued(c) => <>(processed[c] = 1))

\* C14: what the task of one city writes (settings of the process, maps) is
\* not written by the task of another city.
C14_NothingWrittenTwice ==
    \A c, d \in DOMAIN written : c # d => written[c] \cap written[d] = {}

\* the maps that may stay when the module has exited: the maps given as inputs
\* and the requested output maps
MapsToKeep == UNION {MapsOf(o) : o \in InputMaps \cup OutputMaps}

\* the module process has exited after main returned or after grass.fatal
ExitedAfterReturnOrFatal == pc = "exited" /\ error \in {"", "fatal"}

C16_TemporaryMapsSaved ==
    [][("s" \in flags /\ pc' = "exited") => rasters' = rasters]_vars

\* C17: each time a step finds a map missing, the fatal helper ends the run
\* there: the step is the last one of the trace and the error is "fatal"
C17_FatalOnMissingMap ==
    \A i \in DOMAIN trace :
        trace[i].step = "missing" => i = Len(trace) /\ error = "fatal"

C19_AccessibilityTable ==
    (fn = "anthropic_accessibility" /\ arg.anthropic \in 1 .. 5 /\ arg.roads \in 1 .. 5)
        => /\ res = I(DocumentedAccessibility[arg.anthropic][arg.roads])
           /\ res.n \in 1 .. 5

C19_Witness ==
    fn = "anthropic_accessibility" /\ arg.anthropic = 5 /\ arg.roads = 2 /\ res = I(4)

\* C20: for a cell with the population L the mobility function yields
\* (1 + kappa) / (kappa + exp(-alpha * L)) * 52 when L is not 0, and 0 when
\* L is 0
C20_MobilityFormula ==
    fn = "build_mobility_function"
        => Same(res, DocumentedMobility(arg.kappa, arg.alpha, arg.population))

\* the last distance category of SPECTRUM_DISTANCE_CATEGORY_LABELS: ">4 km"
LastDistanceCategory == Len(spectrum_distances)

\* C21: the unmet-demand expression yields a value exactly for the cells of
\* the last distance category (>4 km) and NULL for every other cell
C21_UnmetDemandInLastBand ==
    fn = "unmet_demand"
        => /\ ~res.err
           /\ ~res.null <=> arg.class = LastDistanceCategory

\* C22: when main returns, the region in force is the one that was in force
\* before the run, and use_temp_region has been called as often as
\* del_temp_region
C22_RegionRestored ==
    at = "returned" => RegionInForce = "user" /\ WIND = "user" /\ use_calls = del_calls

\* the maps that the user gives as inputs
UserInputs == UNION {MapsOf(o) : o \in InputMaps}

\* the step of the trace at which main calls zerofy_and_normalise_component
IsNormaliseCall(step) == step.step = "zerofy_and_normalise_component"

\* main has applied the map of the option mask as the MASK
MaskApplied ==
    \E i \in DOMAIN trace : trace[i].step = "mask" /\ trace[i].output = Answer("mask")

\* C23: the list of maps of every call of zerofy_and_normalise_component is
\* not empty
C23_ListsNonEmpty ==
    \A i \in DOMAIN trace : IsNormaliseCall(trace[i]) => trace[i].maps # <<>>

C25_InputsNotModified == nulled \cap UserInputs = {}

\* C9: normalisation of a layer with max > min writes (x - min) / (max - min)
\* for every cell: values in [0,1], the minimum at 0 and the maximum at 1.
C9_Normalised ==
    (fn = "normalize" /\ HasRange(arg.layer))
        => /\ Written(res, "out")
           /\ SameRaster(res.db["out"], MinMax(arg.layer))
           /\ \A c \in NonNull(arg.layer) :
                /\ Leq(I(0), res.db["out"][c]) /\ Leq(res.db["out"][c], I(1))
                /\ Same(arg.layer[c], MinCell(arg.layer)) => Same(res.db["out"][c], I(0))
                /\ Same(arg.layer[c], MaxCell(arg.layer)) => Same(res.db["out"][c], I(1))

C26_EveryValueOneClass ==
    fn = "r.recode"
        => /\ ~res.null
           /\ res.n \in 1 .. ClassesOf(arg.rules)

\* what the widget of a parameter holds: nothing, when Transparent is
\* checked or no colour has been selected
IsEmpty(name) ==
    LET class == WidgetClass(gtask(name))
    IN  IF class = "Colors"
        THEN widgets[name].transparent \/ widgets[name].text = SELECT_COLOR
        ELSE class # "SimpleFloat" /\ widgets[name].text = ""

\* the widget of a parameter holds the default of the parameter
AtDefault(name) ==
    IF WidgetClass(gtask(name)) = "SimpleFloat"
    THEN gtask(name).default # "" /\ widgets[name].value = float(gtask(name).default)
    ELSE widgets[name].text = gtask(name).default

\* the current value of the widget, as the text passed to code_dict_changer
CurrentValue(name) ==
    IF WidgetClass(gtask(name)) = "SimpleFloat" THEN str(widgets[name].value)
    ELSE widgets[name].text

\* C27: after any edits the dictionary has an entry for a parameter whose
\* widget was edited exactly when the value of the widget is not empty and
\* differs from the default (or the parameter is layer), and the entry is
\* the current value
C27_DictionaryFollowsWidgets ==
    \A name \in edited :
        /\ name \in DOMAIN codeDict
                <=> (~IsEmpty(name) /\ (~AtDefault(name) \/ name = "layer"))
        /\ name \in DOMAIN codeDict => codeDict[name] = CurrentValue(name)

====
